---- MODULE Spec2Model ----
(***************************************************************************)
(* Training-run orchestrator of backend/model_training_api.py.             *)
(*                                                                         *)
(* The model_runs table, the request handler trigger_manual_run and the    *)
(* background coroutine run_training_task are modelled as a state machine. *)
(* The handler contains no await, so it is one step of the event loop.  The *)
(* coroutine is cut at its await expressions: every action named Sup...    *)
(* runs the code between two awaits, and other handlers and coroutines may *)
(* run in between.  Each coroutine owns a SQLAlchemy session               *)
(* (autoflush=False): attribute writes stay in the session until commit,   *)
(* refresh reloads the row and drops unflushed writes, commit and rollback *)
(* expire the object.                                                      *)
(*                                                                         *)
(* Representation: a nullable column is <<>> (NULL) or <<v>>; times are    *)
(* whole seconds; the float columns regParam and alpha are held in         *)
(* hundredths (0.01 is 1, 1.0 is 100); a log is a sequence of tokens, one  *)
(* per appended text block.                                                *)
(***************************************************************************)
EXTENDS Integers, Sequences, FiniteSets, TLC

VARIABLES runs, tasks, schedule, versions, metrics, now, resp, nTrig

vars == <<runs, tasks, schedule, versions, metrics, now, resp, nTrig>>

----------------------------------------------------------------------------
(* Bounds of the model *)

\* trigger requests served in one behaviour
MaxTriggers == 2
\* latest clock reading, in seconds
MaxTime == 3725
\* seconds between two readings of the clock
TickSeconds == 3725
\* output lines one child process may emit
MaxLines == 1

----------------------------------------------------------------------------
(* Values *)

None == <<>>
Some(v) == <<v>>
IsNone(o) == o = <<>>
Get(o) == o[1]

RunStatus == {"success", "failed", "running", "queued", "cancelled"}
TriggerType == {"manual", "scheduled"}
ActiveStatus == {"running", "queued"}
TerminalStatus == {"success", "failed", "cancelled"}

HyperFields == {"rank", "regParam", "alpha", "maxIter"}

\* one appended block of log text
Tok(kind, val) == [k |-> kind, v |-> val]

\* a child exits by itself with one of these codes
ExitCodes == {0, 2}

\* the six metric types of a structured line, in the order of line 776
MetricTypes == {"precision", "recall", "map", "ndcg", "coverage", "hitRate"}

\* a run of digits and dots matched by "[\d.]+": float() accepts it (ok, with
\* its value) or raises ValueError (as for "1.2.3")
Num(v) == [ok |-> TRUE, val |-> v]
Malformed == [ok |-> FALSE, val |-> 0]

\* A line of the child's output, by what the supervisor looks at: whether
\* text is left after rstrip, what the pattern "METRIC|k=..|precision=..|.."
\* captured, and what the pattern "NDCG@10 = .." captured.
BlankLine == [text |-> FALSE, metric |-> None, ndcg |-> None]
TextLine == [text |-> TRUE, metric |-> None, ndcg |-> None]
MetricLine(k, fields) ==
    [text |-> TRUE, metric |-> Some([k |-> k, fields |-> fields]), ndcg |-> None]
NdcgLine(num) == [text |-> TRUE, metric |-> None, ndcg |-> Some(num)]

\* the six fields of a structured line, all printed as the number v
SixFields(v) == [m \in MetricTypes |-> Num(v)]

\* lines a child may print in the orchestration runs
OutputLines == {BlankLine, TextLine}

----------------------------------------------------------------------------
(* Helper functions *)

\* mutant: the hours are counted over the whole span, days included
calculate_duration_whole_hours(start_time, end_time) ==
    IF IsNone(end_time) THEN None
    ELSE LET total_seconds == Get(end_time) - start_time
             days == total_seconds \div 86400
             hours == total_seconds \div 3600
             minutes == (total_seconds % 3600) \div 60
             parts == (IF days > 0 THEN <<[n |-> days, u |-> "d"]>> ELSE <<>>)
                      \o (IF hours > 0 THEN <<[n |-> hours, u |-> "h"]>> ELSE <<>>)
                      \o (IF minutes > 0 THEN <<[n |-> minutes, u |-> "m"]>> ELSE <<>>)
         IN  IF parts = <<>> THEN Some(<<[n |-> 0, u |-> "m"]>>) ELSE Some(parts)

\* calculate_duration: the units as (count, unit) pairs, largest first
calculate_duration(start_time, end_time) ==
    IF IsNone(end_time) THEN None
    ELSE LET total_seconds == Get(end_time) - start_time
             days == total_seconds \div 86400
             hours == (total_seconds % 86400) \div 3600
             minutes == (total_seconds % 3600) \div 60
             parts == (IF days > 0 THEN <<[n |-> days, u |-> "d"]>> ELSE <<>>)
                      \o (IF hours > 0 THEN <<[n |-> hours, u |-> "h"]>> ELSE <<>>)
                      \o (IF minutes > 0 THEN <<[n |-> minutes, u |-> "m"]>> ELSE <<>>)
         IN  IF parts = <<>> THEN Some(<<[n |-> 0, u |-> "m"]>>) ELSE Some(parts)

\* generate_run_id: "{triggered_by}__{timestamp}", to the second
generate_run_id(triggered_by, t) == [src |-> triggered_by, ts |-> t, sfx |-> 0]

\* f"{base_run_id}_{counter}"
WithSuffix(base_run_id, counter) == [base_run_id EXCEPT !.sfx = counter]

\* db.query(ModelRun).filter(ModelRun.run_id == run_id).first() is not None
RunIdExists(store, run_id) == \E i \in 1..Len(store) : store[i].run_id = run_id

----------------------------------------------------------------------------
(* Request body of POST /runs/trigger *)

\* a JSON member of the request body: left out, null, or a number
Omitted == [k |-> "omitted", v |-> 0]
JsonNull == [k |-> "null", v |-> 0]
JsonNum(n) == [k |-> "value", v |-> n]

\* Field(10), Field(0.01), Field(1.0), Field(10) of ModelRunCreate
FieldDefault == [rank |-> 10, regParam |-> 1, alpha |-> 100, maxIter |-> 10]

\* the literals of "rank or 10", "regParam or 0.01", "alpha or 1.0", "maxIter or 10"
FallbackDefault == [rank |-> 10, regParam |-> 1, alpha |-> 100, maxIter |-> 10]

\* pydantic: a member left out takes the Field default, null stays None
ParseField(json, f) ==
    CASE json.k = "omitted" -> Some(FieldDefault[f])
      [] json.k = "null" -> None
      [] OTHER -> Some(json.v)

\* ModelRunCreate(**body)
ModelRunCreate(body) ==
    [triggered_by |-> body.triggered_by,
     rank |-> ParseField(body.rank, "rank"),
     regParam |-> ParseField(body.regParam, "regParam"),
     alpha |-> ParseField(body.alpha, "alpha"),
     maxIter |-> ParseField(body.maxIter, "maxIter")]

\* Python "x or d" on an Optional number: None and 0 are falsy
OrDefault(x, d) == IF IsNone(x) \/ Get(x) = 0 THEN d ELSE Get(x)

\* "x if x is not None else y"
IfNotNone(x, y) == IF ~IsNone(x) THEN x ELSE y

\* lines 399-418 for one field: request, then schedule, then literal
ResolveField(request, sched, f) ==
    LET fromSchedule ==
            IF request.triggered_by = "scheduled" /\ ~IsNone(sched)
            THEN IfNotNone(request[f], Get(sched)[f])
            ELSE request[f]
    IN  OrDefault(fromSchedule, FallbackDefault[f])

ResolveHyper(request, sched) ==
    [f \in HyperFields |-> ResolveField(request, sched, f)]

----------------------------------------------------------------------------
(* model_runs rows and the supervisor tasks *)

\* the attributes of a row that run_training_task reads and writes
RowAttrs(row) ==
    [status |-> row.status, logs |-> row.logs,
     end_time |-> row.end_time, duration |-> row.duration]

\* a session object whose attributes are expired (not loaded)
ExpiredObj == [status |-> "", logs |-> None, end_time |-> None, duration |-> None]

\* mutant: the new row is inserted as already running
NewRunAsRunning(run_id, triggered_by, hyper, t) ==
    [run_id |-> run_id, status |-> "running", start_time |-> t,
     end_time |-> None, duration |-> None, triggered_by |-> triggered_by,
     logs |-> None, rank |-> Some(hyper.rank), regParam |-> Some(hyper.regParam),
     alpha |-> Some(hyper.alpha), maxIter |-> Some(hyper.maxIter)]

\* mutant: the rank column is left NULL
NewRunWithoutRank(run_id, triggered_by, hyper, t) ==
    [run_id |-> run_id, status |-> "queued", start_time |-> t,
     end_time |-> None, duration |-> None, triggered_by |-> triggered_by,
     logs |-> None, rank |-> None, regParam |-> Some(hyper.regParam),
     alpha |-> Some(hyper.alpha), maxIter |-> Some(hyper.maxIter)]

\* ModelRun(...) of lines 434-447
NewRun(run_id, triggered_by, hyper, t) ==
    [run_id |-> run_id, status |-> "queued", start_time |-> t,
     end_time |-> None, duration |-> None, triggered_by |-> triggered_by,
     logs |-> None, rank |-> Some(hyper.rank), regParam |-> Some(hyper.regParam),
     alpha |-> Some(hyper.alpha), maxIter |-> Some(hyper.maxIter)]

\* background_tasks.add_task(run_training_task, new_run.id, rank=..., ...);
\* "committed" records the status changes the task's commits have made,
\* "signals" the signals it has sent to its child and not yet returned from
NewTask(hyper) ==
    [pc |-> "start", args |-> hyper, obj |-> ExpiredObj, dirty |-> {},
     version_tag |-> None, proc |-> "none", rc |-> 0, stdout |-> "none",
     emitted |-> 0, output_lines |-> 0, remaining_output |-> 0,
     extracted_metrics |-> <<>>, ndcg_value |-> None, committed |-> {},
     signals |-> <<>>]

\* the task after "return" and the finally block: session closed, locals gone
Finished(tk) ==
    [tk EXCEPT !.pc = "done", !.obj = ExpiredObj, !.dirty = {}, !.signals = <<>>]

\* (existing_run.logs or "") + text
LogsOrEmpty(logs) == IF IsNone(logs) THEN <<>> ELSE Get(logs)

\* mutant: the cancellation leaves no line in the log
CancelRunWithoutNotice(row, t) ==
    LET end_time == Some(t)
    IN  [row EXCEPT !.status = "cancelled",
                    !.end_time = end_time,
                    !.duration = calculate_duration(row.start_time, end_time)]

\* mutant: the cancellation forgets the end time and the duration
CancelRunWithoutEnd(row, t) ==
    [row EXCEPT !.status = "cancelled",
                !.logs = Some(LogsOrEmpty(row.logs) \o <<Tok("preempt", 0)>>)]

\* lines 388-394 on one row
CancelRun(row, t) ==
    LET end_time == Some(t)
    IN  [row EXCEPT !.status = "cancelled",
                    !.end_time = end_time,
                    !.duration = calculate_duration(row.start_time, end_time),
                    !.logs = Some(LogsOrEmpty(row.logs) \o <<Tok("preempt", 0)>>)]

\* mutant: only running runs are looked for
IsRunningOnly(row) == row.status = "running"

\* status.in_(["running", "queued"])
IsRunningOrQueued(row) == row.status \in {"running", "queued"}

\* lines 382-396: cancel every running or queued run, then commit
CancelExisting(store, t) ==
    [i \in 1..Len(store) |->
        IF IsRunningOrQueued(store[i]) THEN CancelRun(store[i], t) ELSE store[i]]

\* the retry budget of the collision loop: "counter < 100"
MaxCounter == 100

RECURSIVE SuffixLoop(_, _, _, _)
\* "while existing_run and counter < 100", entered with the candidate run_id
SuffixLoop(store, base_run_id, run_id, counter) ==
    IF RunIdExists(store, run_id) /\ counter < MaxCounter
    THEN SuffixLoop(store, base_run_id, WithSuffix(base_run_id, counter), counter + 1)
    ELSE run_id

\* lines 420-431
ChooseRunId(store, triggered_by, t) ==
    LET run_id == generate_run_id(triggered_by, t)
    IN  IF RunIdExists(store, run_id) THEN SuffixLoop(store, run_id, run_id, 1)
        ELSE run_id

\* mutant: the column has no unique constraint
NoUniqueConstraint(store, run_id) == FALSE

\* unique=True on model_runs.run_id: the INSERT is refused for a duplicate
UniqueViolation(store, run_id) == RunIdExists(store, run_id)

----------------------------------------------------------------------------
(* Responses *)

NoResponse ==
    [code |-> 0, err |-> "", id |-> 0, status |-> "", end_time |-> None,
     duration |-> None, hyper_parameters |-> None]

\* ModelRunResponse of lines 463-483, status_code=201
CreatedResponse(id, row) ==
    [code |-> 201, err |-> "", id |-> id, status |-> row.status,
     end_time |-> row.end_time, duration |-> row.duration,
     hyper_parameters |->
        IF ~IsNone(row.rank)
        THEN Some([rank |-> Get(row.rank), regParam |-> Get(row.regParam),
                   alpha |-> Get(row.alpha), maxIter |-> Get(row.maxIter)])
        ELSE None]

\* an exception that leaves the handler: FastAPI answers 500
ErrorResponse(name) == [NoResponse EXCEPT !.code = 500, !.err = name]

\* HTTPException(status_code=..., detail={"error": {"code": ...}})
HttpError(status_code, code) == [NoResponse EXCEPT !.code = status_code, !.err = code]

----------------------------------------------------------------------------
(* The training schedule.  A cron expression is the sequence of its        *)
(* characters, a blank being " ".                                          *)

\* len(cron_expr.strip().split()): the maximal runs of non-blank characters
FieldCount(cron_expr) ==
    Cardinality({n \in 1..Len(cron_expr) :
                    /\ cron_expr[n] # " "
                    /\ (n = 1 \/ cron_expr[n - 1] = " ")})

\* validate_cron_expression: five fields (no part of a split is empty)
validate_cron_expression(cron_expr) == FieldCount(cron_expr) = 5

\* "0 0 * * *"
DailyCron == <<"0", " ", "0", " ", "*", " ", "*", " ", "*">>

\* Python truth value of an Optional[str]: None and "" are falsy
Truthy(opt_str) == ~IsNone(opt_str) /\ Get(opt_str) # <<>>

\* TrainingScheduleResponse of lines 908-920 and 988-1000
ScheduleResponse(row) ==
    [code |-> 200, err |-> "", cron_expression |-> row.cron_expression,
     is_paused |-> row.is_paused, rank |-> row.rank, regParam |-> row.regParam,
     alpha |-> row.alpha, maxIter |-> row.maxIter]

\* TrainingSchedule(...) of lines 944-951
NewSchedule(request) ==
    [cron_expression |-> Get(request.cron_expression),
     is_paused |-> IF ~IsNone(request.is_paused) THEN Get(request.is_paused) ELSE FALSE,
     rank |-> request.rank, regParam |-> request.regParam,
     alpha |-> request.alpha, maxIter |-> request.maxIter]

\* lines 955-978: the fields of the request that are set replace the row's
UpdatedSchedule(row, request) ==
    [cron_expression |-> IF Truthy(request.cron_expression)
                         THEN Get(request.cron_expression) ELSE row.cron_expression,
     is_paused |-> IF ~IsNone(request.is_paused) THEN Get(request.is_paused)
                   ELSE row.is_paused,
     rank |-> IfNotNone(request.rank, row.rank),
     regParam |-> IfNotNone(request.regParam, row.regParam),
     alpha |-> IfNotNone(request.alpha, row.alpha),
     maxIter |-> IfNotNone(request.maxIter, row.maxIter)]

\* PUT /schedule
update_training_schedule(request) ==
    /\ IF IsNone(schedule)
       THEN IF ~Truthy(request.cron_expression)
            THEN /\ resp' = HttpError(400, "VALIDATION_ERROR")
                 /\ schedule' = schedule
            ELSE /\ schedule' = Some(NewSchedule(request))
                 /\ resp' = ScheduleResponse(NewSchedule(request))
       ELSE IF /\ Truthy(request.cron_expression)
               /\ ~validate_cron_expression(Get(request.cron_expression))
            THEN /\ resp' = HttpError(400, "VALIDATION_ERROR")
                 /\ schedule' = schedule
            ELSE /\ schedule' = Some(UpdatedSchedule(Get(schedule), request))
                 /\ resp' = ScheduleResponse(UpdatedSchedule(Get(schedule), request))
    /\ UNCHANGED <<runs, tasks, versions, metrics, now, nTrig>>

\* GET /schedule
get_training_schedule ==
    /\ resp' = IF IsNone(schedule) THEN HttpError(404, "NOT_FOUND")
               ELSE ScheduleResponse(Get(schedule))
    /\ UNCHANGED <<runs, tasks, schedule, versions, metrics, now, nTrig>>

\* PATCH /schedule/pause (paused TRUE) and PATCH /schedule/resume (FALSE)
SetPaused(paused) ==
    /\ IF IsNone(schedule)
       THEN /\ resp' = HttpError(404, "NOT_FOUND")
            /\ schedule' = schedule
       ELSE /\ schedule' = Some([Get(schedule) EXCEPT !.is_paused = paused])
            /\ resp' = ScheduleResponse([Get(schedule) EXCEPT !.is_paused = paused])
    /\ UNCHANGED <<runs, tasks, versions, metrics, now, nTrig>>

pause_schedule == SetPaused(TRUE)

resume_schedule == SetPaused(FALSE)

----------------------------------------------------------------------------
(* POST /runs/trigger *)

\* trigger_manual_run: no await inside, so one step of the event loop
trigger_manual_run(body) ==
    LET request == ModelRunCreate(body)
        store == CancelExisting(runs, now)
        hyper == ResolveHyper(request, schedule)
        run_id == ChooseRunId(store, request.triggered_by, now)
        new_run == NewRun(run_id, request.triggered_by, hyper, now)
    IN  /\ nTrig < MaxTriggers
        /\ nTrig' = nTrig + 1
        /\ IF UniqueViolation(store, run_id)
           THEN \* db.commit() of line 450 raises IntegrityError
                /\ runs' = store
                /\ tasks' = tasks
                /\ resp' = ErrorResponse("IntegrityError")
           ELSE /\ runs' = Append(store, new_run)
                /\ tasks' = Append(tasks, NewTask(hyper))
                /\ resp' = CreatedResponse(Len(store) + 1, new_run)
        /\ UNCHANGED <<schedule, versions, metrics, now>>

\* the wall clock passes a second boundary
Tick ==
    /\ now + TickSeconds <= MaxTime
    /\ now' = now + TickSeconds
    /\ UNCHANGED <<runs, tasks, schedule, versions, metrics, resp, nTrig>>

----------------------------------------------------------------------------
(* The supervisor's SQLAlchemy session.  A frame holds what one step of    *)
(* run_training_task works on: the run's row, the task's locals and        *)
(* session object, the model_versions and metrics tables, and the clock.   *)

Frame(i) ==
    [row |-> runs[i], tk |-> tasks[i], vers |-> versions, mets |-> metrics,
     t |-> now, id |-> i]

\* reading an attribute of an expired object loads the row
Loaded(F) ==
    IF F.tk.obj.status = "" THEN [F EXCEPT !.tk.obj = RowAttrs(F.row)] ELSE F

\* run.<attr> = value: kept in the session until the next flush
SetAttr(F, attr, value) ==
    LET G == Loaded(F)
    IN  [G EXCEPT !.tk.obj[attr] = value, !.tk.dirty = @ \cup {attr}]

\* run.logs += text
AppendLog(F, tok) ==
    LET G == Loaded(F)
    IN  SetAttr(G, "logs", Some(Get(G.tk.obj.logs) \o <<tok>>))

\* db.refresh(run): the attributes are expired, unflushed writes to them are
\* dropped, and the row is read again
Refresh(F) == [F EXCEPT !.tk.obj = RowAttrs(F.row), !.tk.dirty = {}]

\* db.commit(): UPDATE of the modified attributes, then every object expires
Commit(F) ==
    LET status == IF "status" \in F.tk.dirty THEN F.tk.obj.status ELSE F.row.status
    IN  [F EXCEPT !.row = [a \in DOMAIN F.row |->
                              IF a \in F.tk.dirty THEN F.tk.obj[a] ELSE F.row[a]],
                  !.tk.obj = ExpiredObj,
                  !.tk.dirty = {},
                  !.tk.committed = IF status # F.row.status
                                   THEN @ \cup {<<F.row.status, status>>}
                                   ELSE @]

\* db.rollback(): unflushed writes are dropped, every object expires
Rollback(F) == [F EXCEPT !.tk.obj = ExpiredObj, !.tk.dirty = {}]

\* run.end_time = datetime.utcnow(); run.duration = calculate_duration(...)
\* mutant: the supervisor records the end time without the duration
StampEndTimeOnly(F) ==
    SetAttr(F, "end_time", Some(F.t))

StampEnd(F) ==
    LET G == SetAttr(F, "end_time", Some(F.t))
    IN  SetAttr(G, "duration", calculate_duration(G.row.start_time, G.tk.obj.end_time))

At(F, label) == [F EXCEPT !.tk.pc = label]

\* return, then "finally: db.close()"
Return(F) == [F EXCEPT !.tk = Finished(@)]

\* process.returncode is None
ReturncodeIsNone(tk) == tk.proc # "exited"

\* process.stdout.close()
CloseStdout(F) ==
    IF F.tk.stdout \in {"open", "eof"} THEN [F EXCEPT !.tk.stdout = "closed"] ELSE F

\* process.terminate() or process.kill(), followed by
\* "await asyncio.wait_for(process.wait(), timeout=...)"; "alive" tells
\* whether the child had not been seen to exit when the signal was sent
SendSignal(F, sig, timeout) ==
    [F EXCEPT !.tk.signals =
        Append(@, [sig |-> sig, timeout |-> timeout, alive |-> ReturncodeIsNone(F.tk)])]

----------------------------------------------------------------------------
(* run_training_task, cut at its awaits *)

\* mutant: the exception ends the task and nothing is written on the run
FatalErrorUnrecorded(F) == Return(Rollback(Loaded(F)))

\* the outer "except Exception" of lines 860-888, reached before a child
\* process exists ('process' not in locals())
FatalError(F) ==
    LET G == Loaded(F)
        H == IF G.tk.obj.status # "cancelled" THEN SetAttr(G, "status", "failed") ELSE G
        J == StampEnd(H)
        K == SetAttr(J, "logs", Some(LogsOrEmpty(J.tk.obj.logs) \o <<Tok("fatal", 0)>>))
    IN  Return(Commit(K))

\* str.capitalize(): first letter upper case, the rest lower case
Capitalize(metric_type) ==
    CASE metric_type = "precision" -> "Precision"
      [] metric_type = "recall" -> "Recall"
      [] metric_type = "map" -> "Map"
      [] metric_type = "ndcg" -> "Ndcg"
      [] metric_type = "coverage" -> "Coverage"
      [] metric_type = "hitRate" -> "Hitrate"

\* mutant: only the ndcg value of each cutoff is saved
MetricRowsNdcgOnly(vid, extracted) ==
    UNION {{[model_version_id |-> vid,
             metric_name |-> [type |-> Capitalize(m), k |-> k],
             metric_value |-> extracted[k][m]] : m \in DOMAIN extracted[k] \cap {"ndcg"}}
           : k \in DOMAIN extracted}

\* the Metric rows of lines 772-786 for the version with id vid
MetricRows(vid, extracted) ==
    UNION {{[model_version_id |-> vid,
             metric_name |-> [type |-> Capitalize(m), k |-> k],
             metric_value |-> extracted[k][m]] : m \in DOMAIN extracted[k]}
           : k \in DOMAIN extracted}

\* mutant: the new version is inserted as the active one
NewVersionActive(version_tag) ==
    [version_tag |-> version_tag, artifact_path |-> version_tag, isActive |-> TRUE]

\* ModelVersion(version_tag=..., artifact_path=f"models/als_model_{version_tag}")
NewVersion(version_tag) ==
    [version_tag |-> version_tag, artifact_path |-> version_tag, isActive |-> FALSE]

\* mutant: a failed batch leaves the rows of one cutoff behind
SaveMetricsPartially(F, vid, metricsCommitFails) ==
    IF DOMAIN F.tk.extracted_metrics # {}
    THEN IF metricsCommitFails
         THEN LET k == CHOOSE c \in DOMAIN F.tk.extracted_metrics : TRUE
                  rows == {r \in MetricRows(vid, F.tk.extracted_metrics) :
                              r.metric_name.k = k}
              IN  Rollback(AppendLog([F EXCEPT !.mets = @ \cup rows],
                                     Tok("warn_metrics", 0)))
         ELSE LET rows == MetricRows(vid, F.tk.extracted_metrics)
                  G == [F EXCEPT !.mets = @ \cup rows]
              IN  AppendLog(Commit(G), Tok("metrics_saved", Cardinality(rows)))
    ELSE AppendLog(F, Tok("warn_nometrics", 0))

\* lines 768-795, after the version is committed
SaveMetrics(F, vid, metricsCommitFails) ==
    IF DOMAIN F.tk.extracted_metrics # {}
    THEN IF metricsCommitFails
         THEN Rollback(AppendLog(F, Tok("warn_metrics", 0)))
         ELSE LET rows == MetricRows(vid, F.tk.extracted_metrics)
                  G == [F EXCEPT !.mets = @ \cup rows]
              IN  AppendLog(Commit(G), Tok("metrics_saved", Cardinality(rows)))
    ELSE AppendLog(F, Tok("warn_nometrics", 0))

\* mutant: the publisher inserts the version row twice
PublishVersionTwice(F, versionCommitFails, metricsCommitFails) ==
    LET G == AppendLog(F, Tok("version_saved", 0))
    IN  IF versionCommitFails
        THEN Rollback(AppendLog(G, Tok("warn_version", 0)))
        ELSE LET row == NewVersion(G.tk.version_tag)
                 H == Commit([G EXCEPT !.vers = Append(Append(@, row), row)])
             IN  SaveMetrics(H, Len(H.vers), metricsCommitFails)

\* lines 747-799: the version row and the run's pending writes share the
\* commit of line 766
PublishVersion(F, versionCommitFails, metricsCommitFails) ==
    LET G == AppendLog(F, Tok("version_saved", 0))
    IN  IF versionCommitFails
        THEN Rollback(AppendLog(G, Tok("warn_version", 0)))
        ELSE LET H == Commit([G EXCEPT !.vers = Append(@, NewVersion(G.tk.version_tag))])
             IN  SaveMetrics(H, Len(H.vers), metricsCommitFails)

\* mutant: the version is published whatever the return code
CompletedPublishingAnyway(F, versionCommitFails, metricsCommitFails) ==
    LET return_code == F.tk.rc
        G == StampEnd(AppendLog(F, Tok("completed", return_code)))
        H == IF return_code = 0
             THEN AppendLog(SetAttr(G, "status", "success"), Tok("success", 0))
             ELSE AppendLog(SetAttr(G, "status", "failed"), Tok("failed_rc", return_code))
    IN  Return(Commit(PublishVersion(H, versionCommitFails, metricsCommitFails)))

\* lines 731-803 and the commit of line 858, entered with the return code
Completed(F, versionCommitFails, metricsCommitFails) ==
    LET return_code == F.tk.rc
        G == StampEnd(AppendLog(F, Tok("completed", return_code)))
        S == AppendLog(SetAttr(G, "status", "success"), Tok("success", 0))
        H == IF return_code = 0
             THEN PublishVersion(
                      IF ~IsNone(F.tk.ndcg_value)
                      THEN AppendLog(S, Tok("validation_ndcg", Get(F.tk.ndcg_value)))
                      ELSE S,
                      versionCommitFails, metricsCommitFails)
             ELSE AppendLog(SetAttr(G, "status", "failed"), Tok("failed_rc", return_code))
    IN  Return(Commit(H))

\* mutant: the run found cancelled is closed as failed
FinishCancelledInLoopAsFailed(F) ==
    LET G == StampEnd(AppendLog(CloseStdout(F), Tok("terminated", 0)))
    IN  Return(Commit(SetAttr(G, "status", "failed")))

\* lines 610-625: the cancellation found at the top of the read loop
FinishCancelledInLoop(F) ==
    LET G == StampEnd(AppendLog(CloseStdout(F), Tok("terminated", 0)))
    IN  Return(Commit(SetAttr(G, "status", "cancelled")))

\* lines 713-726: the cancellation found after the read loop
FinishCancelledAfterLoop(F) ==
    Return(Commit(StampEnd(AppendLog(CloseStdout(F), Tok("terminated", 0)))))

\* lines 693-729: after the loop; "await process.wait()" returns at once
\* when the return code is already known
AfterLoop(F, versionCommitFails, metricsCommitFails) ==
    LET G == Refresh(F)
    IN  IF G.tk.obj.status = "cancelled"
        THEN LET H == AppendLog(G, Tok("cancel_post", 0))
             IN  IF ReturncodeIsNone(H.tk)
                 THEN At(SendSignal(H, "terminate", 5), "term_post")
                 ELSE FinishCancelledAfterLoop(H)
        ELSE IF ReturncodeIsNone(G.tk)
             THEN At(G, "wait")               \* await process.wait()
             ELSE Completed(G, versionCommitFails, metricsCommitFails)

\* lines 584-628: the top of "while True" up to "await process.stdout.readline()"
LoopTop(F) ==
    LET G == Refresh(F)
    IN  IF G.tk.obj.status = "cancelled"
        THEN LET H == Commit(AppendLog(G, Tok("cancel_loop", 0)))
             IN  IF ReturncodeIsNone(H.tk)
                 THEN At(SendSignal(H, "terminate", 5), "term_loop")
                 ELSE FinishCancelledInLoop(H)
        ELSE At(G, "read")

\* extracted_metrics[k] = value
PutEntry(extracted, k, value) ==
    [c \in DOMAIN extracted \cup {k} |-> IF c = k THEN value ELSE extracted[c]]

\* mutant: a structured line keeps an entry its cutoff already has
ParseStructuredKeepingFirst(extracted, line) ==
    IF IsNone(line.metric) THEN extracted
    ELSE LET m == Get(line.metric)
         IN  IF (\A f \in MetricTypes : m.fields[f].ok) /\ m.k \notin DOMAIN extracted
             THEN PutEntry(extracted, m.k, [f \in MetricTypes |-> m.fields[f].val])
             ELSE extracted

\* lines 642-662: a structured line replaces the entry of its cutoff; a
\* field float() rejects raises ValueError before the assignment
ParseStructured(extracted, line) ==
    IF IsNone(line.metric) THEN extracted
    ELSE LET m == Get(line.metric)
         IN  IF \A f \in MetricTypes : m.fields[f].ok
             THEN PutEntry(extracted, m.k, [f \in MetricTypes |-> m.fields[f].val])
             ELSE extracted

\* mutant: every NDCG@10 line overwrites the ndcg of cutoff 10
ParseLegacyOverwriting(extracted, line) ==
    IF IsNone(line.ndcg) \/ ~Get(line.ndcg).ok THEN extracted
    ELSE LET entry == IF 10 \in DOMAIN extracted THEN extracted[10] ELSE <<>>
         IN  PutEntry(extracted, 10,
                      [f \in DOMAIN entry \cup {"ndcg"} |->
                          IF f = "ndcg" THEN Get(line.ndcg).val ELSE entry[f]])

\* lines 668-674: the NDCG@10 line fills extracted_metrics[10]['ndcg'] when
\* it is not there yet
ParseLegacy(extracted, line) ==
    IF IsNone(line.ndcg) \/ ~Get(line.ndcg).ok THEN extracted
    ELSE LET entry == IF 10 \in DOMAIN extracted THEN extracted[10] ELSE <<>>
         IN  IF "ndcg" \in DOMAIN entry
             THEN PutEntry(extracted, 10, entry)
             ELSE PutEntry(extracted, 10,
                           [f \in DOMAIN entry \cup {"ndcg"} |->
                               IF f = "ndcg" THEN Get(line.ndcg).val ELSE entry[f]])

\* lines 642-676 on the task's locals
ExtractMetrics(tk, line) ==
    [tk EXCEPT !.extracted_metrics = ParseLegacy(ParseStructured(@, line), line),
               !.ndcg_value = IF ~IsNone(line.ndcg) /\ Get(line.ndcg).ok
                              THEN Some(Get(line.ndcg).val) ELSE @]

\* "len(output_lines) % 5 == 0": the loop yields with asyncio.sleep(0)
YieldEvery == 5

\* mutant: after a blank line the task reads on without looking at the status
LineReadSkippingBlank(F, line, versionCommitFails, metricsCommitFails) ==
    LET E == [F EXCEPT !.tk.emitted = @ + 1]
    IN  IF ~line.text
        THEN At(E, "read")
        ELSE LET G == AppendLog([E EXCEPT !.tk.output_lines = @ + 1], Tok("line", line))
                 H == Refresh([G EXCEPT !.tk = ExtractMetrics(@, line)])
             IN  IF H.tk.obj.status = "cancelled"
                 THEN AfterLoop(H, versionCommitFails, metricsCommitFails)
                 ELSE LET J == Commit(H)
                      IN  IF J.tk.output_lines % YieldEvery = 0
                          THEN At(J, "loop")
                          ELSE LoopTop(J)

\* lines 630-691 for one line read
LineRead(F, line, versionCommitFails, metricsCommitFails) ==
    LET E == [F EXCEPT !.tk.emitted = @ + 1]
    IN  IF ~line.text
        THEN LoopTop(E)
        ELSE LET G == AppendLog([E EXCEPT !.tk.output_lines = @ + 1], Tok("line", line))
                 H == Refresh([G EXCEPT !.tk = ExtractMetrics(@, line)])
             IN  IF H.tk.obj.status = "cancelled"
                 THEN AfterLoop(H, versionCommitFails, metricsCommitFails)
                 ELSE LET J == Commit(H)
                      IN  IF J.tk.output_lines % YieldEvery = 0
                          THEN At(J, "loop")  \* await asyncio.sleep(0)
                          ELSE LoopTop(J)

\* lines 804-820: "except Exception as proc_error" up to its first await
ProcessError(F) ==
    LET G == Refresh(F)
        H == IF G.tk.obj.status # "cancelled" THEN SetAttr(G, "status", "failed") ELSE G
        J == AppendLog(StampEnd(H), Tok("exec_error", 0))
    IN  IF ReturncodeIsNone(J.tk)
        THEN At(SendSignal(J, "terminate", 3), "exc_term")
        ELSE At(J, "exc_drain")               \* await wait_for(readline(), 0.1)

\* lines 842-858: the end of the handler's drain, cleanup and commit
ProcessErrorEnd(F) ==
    LET G == IF F.tk.remaining_output > 0
             THEN AppendLog(F, Tok("remaining", F.tk.remaining_output))
             ELSE F
    IN  Return(Commit(CloseStdout(G)))

\* what happens at lines 534 and 570
StartOutcomes == {"spawned", "script_missing", "spawn_error"}

\* mutant: the task does not look at the status before it starts the run
StartIgnoringCancel(F, outcome) ==
    LET G == Loaded(F)
        H == Commit(SetAttr(SetAttr(G, "status", "running"),
                            "logs", Some(<<Tok("started", 0)>>)))
    IN  IF outcome = "script_missing"
        THEN FatalError(H)
        ELSE LET J == Commit(AppendLog([H EXCEPT !.tk.version_tag = Some(F.t)],
                                       Tok("cmd", 0)))
             IN  IF outcome = "spawn_error"
                 THEN FatalError(J)
                 ELSE At([J EXCEPT !.tk.proc = "alive", !.tk.stdout = "open"],
                         "loop")

\* lines 508-575: from the task's first step to the spawned child
Start(F, outcome) ==
    LET G == Loaded(F)
    IN  IF G.tk.obj.status = "cancelled"
        THEN Return(G)
        ELSE LET H == Commit(SetAttr(SetAttr(G, "status", "running"),
                                     "logs", Some(<<Tok("started", 0)>>)))
             IN  IF outcome = "script_missing"
                 THEN FatalError(H)
                 ELSE LET J == Commit(AppendLog([H EXCEPT !.tk.version_tag = Some(F.t)],
                                                Tok("cmd", 0)))
                      IN  IF outcome = "spawn_error"
                          THEN FatalError(J)
                          ELSE At([J EXCEPT !.tk.proc = "alive", !.tk.stdout = "open"],
                                  "loop")

----------------------------------------------------------------------------
(* Steps of the event loop *)

\* the frame a step ends with becomes the new state
Store(F) ==
    /\ runs' = [runs EXCEPT ![F.id] = F.row]
    /\ tasks' = [tasks EXCEPT ![F.id] = F.tk]
    /\ versions' = F.vers
    /\ metrics' = F.mets
    /\ UNCHANGED <<schedule, now, resp, nTrig>>

\* the background task is started
SupStart(i, outcome) ==
    /\ tasks[i].pc = "start"
    /\ Store(Start(Frame(i), outcome))

\* resumed from "await create_subprocess_exec" or "await asyncio.sleep(0)"
SupLoop(i) ==
    /\ tasks[i].pc = "loop"
    /\ Store(LoopTop(Frame(i)))

\* readline() returns a line the child printed
SupReadLine(i, line, versionCommitFails, metricsCommitFails) ==
    /\ tasks[i].pc = "read"
    /\ tasks[i].emitted < MaxLines
    /\ Store(LineRead(Frame(i), line, versionCommitFails, metricsCommitFails))

\* readline() returns b"": the child closed its output
SupReadEOF(i, versionCommitFails, metricsCommitFails) ==
    /\ tasks[i].pc = "read"
    /\ Store(AfterLoop([Frame(i) EXCEPT !.tk.stdout = "eof"],
                         versionCommitFails, metricsCommitFails))

\* readline() raises (for instance ValueError for a line over the limit)
SupReadError(i) ==
    /\ tasks[i].pc = "read"
    /\ Store(ProcessError(Frame(i)))

\* "await process.wait()" of line 729 returns
SupProcessExited(i, versionCommitFails, metricsCommitFails) ==
    /\ tasks[i].pc = "wait"
    /\ ~ReturncodeIsNone(tasks[i])
    /\ Store(Completed(Frame(i), versionCommitFails, metricsCommitFails))

\* mutant: the kill follows the wait whether or not the child has exited
SupTerminateWaitAlwaysKill(i) ==
    LET F == Frame(i)
        G == SendSignal(AppendLog(F, Tok("forcekill", 0)), "kill", 2)
    IN  \/ /\ tasks[i].pc = "term_loop"
           /\ Store(At(G, "kill_loop"))
        \/ /\ tasks[i].pc = "term_post"
           /\ Store(At(G, "kill_post"))

\* wait_for(process.wait(), 5.0) returns or times out (lines 597-602, 702-706);
\* on the timeout: the log line, process.kill(), await wait_for(.., 2.0)
SupTerminateWait(i) ==
    LET F == Frame(i)
        G == SendSignal(AppendLog(F, Tok("forcekill", 0)), "kill", 2)
    IN  \/ /\ tasks[i].pc = "term_loop"
           /\ Store(IF ReturncodeIsNone(F.tk)
                    THEN At(G, "kill_loop")
                    ELSE FinishCancelledInLoop(F))
        \/ /\ tasks[i].pc = "term_post"
           /\ Store(IF ReturncodeIsNone(F.tk)
                    THEN At(G, "kill_post")
                    ELSE FinishCancelledAfterLoop(F))

\* wait_for(process.wait(), 2.0) after kill() returns or times out
SupKillWait(i) ==
    LET F == Frame(i)
        G == IF ReturncodeIsNone(F.tk) THEN AppendLog(F, Tok("stillrunning", 0)) ELSE F
    IN  \/ /\ tasks[i].pc = "kill_loop"
           /\ Store(FinishCancelledInLoop(G))
        \/ /\ tasks[i].pc = "kill_post"
           /\ Store(FinishCancelledAfterLoop(G))

\* lines 818-824: wait_for(process.wait(), 3.0) in the error handler
SupExcTerminateWait(i) ==
    /\ tasks[i].pc = "exc_term"
    /\ Store(IF ReturncodeIsNone(tasks[i])
             THEN At(SendSignal(Frame(i), "kill", 2), "exc_kill")
             ELSE At(Frame(i), "exc_drain"))

\* lines 823-826: wait_for(process.wait(), 2.0) after kill(), any outcome
SupExcKillWait(i) ==
    /\ tasks[i].pc = "exc_kill"
    /\ Store(At(Frame(i), "exc_drain"))

\* lines 831-838: the handler reads one more line
SupExcDrainLine(i, line) ==
    /\ tasks[i].pc = "exc_drain"
    /\ tasks[i].emitted < MaxLines
    /\ Store([Frame(i) EXCEPT !.tk.emitted = @ + 1,
                              !.tk.remaining_output = IF ~line.text THEN @ ELSE @ + 1])

\* lines 834-858: end of file, timeout or error ends the drain
SupExcDrainEnd(i) ==
    /\ tasks[i].pc = "exc_drain"
    /\ Store(ProcessErrorEnd(Frame(i)))

\* the child process ends, by itself or by a signal
ChildExit(i, code) ==
    /\ tasks[i].proc = "alive"
    /\ tasks' = [tasks EXCEPT ![i].proc = "exited", ![i].rc = code]
    /\ UNCHANGED <<runs, schedule, versions, metrics, now, resp, nTrig>>

----------------------------------------------------------------------------
(* Initial states and specifications *)

\* a frame for a run that is not in the store yet
FrameOf(row, tk, id, t) ==
    [row |-> row, tk |-> tk, vers |-> <<>>, mets |-> {}, t |-> t, id |-> id]

\* the run_id the k-th trigger of second 0 is given: the base, then _1, _2, ...
NthRunId(k) == WithSuffix(generate_run_id("manual", 0), k - 1)

\* the store after k triggers with an empty body in second 0, the task of
\* each run having run before the next trigger: it found no train_model.py,
\* so the run failed, and the next trigger found nothing to cancel
TriggeredStore(k) ==
    [i \in 1..k |->
        Start(FrameOf(NewRun(NthRunId(i), "manual", FallbackDefault, 0),
                      NewTask(FallbackDefault), i, 0),
              "script_missing").row]

\* their tasks have returned
TriggeredTasks(k) ==
    [i \in 1..k |->
        Start(FrameOf(NewRun(NthRunId(i), "manual", FallbackDefault, 0),
                      NewTask(FallbackDefault), i, 0),
              "script_missing").tk]

EmptyBody(triggered_by) ==
    [triggered_by |-> triggered_by, rank |-> Omitted, regParam |-> Omitted,
     alpha |-> Omitted, maxIter |-> Omitted]

\* request bodies of the orchestration runs
Bodies == {EmptyBody("manual")}

\* the state after k triggers in second 0 whose tasks have all returned
InitWith(k, sched) ==
    /\ runs = TriggeredStore(k)
    /\ tasks = TriggeredTasks(k)
    /\ schedule = sched
    /\ versions = <<>>
    /\ metrics = {}
    /\ now = 0
    /\ resp = NoResponse
    /\ nTrig = 0

Init == InitWith(0, None)

Next ==
    \/ \E body \in Bodies : trigger_manual_run(body)
    \/ Tick
    \/ \E i \in 1..Len(tasks), o \in StartOutcomes : SupStart(i, o)
    \/ \E i \in 1..Len(tasks) : SupLoop(i)
    \/ \E i \in 1..Len(tasks), line \in OutputLines, vf, mf \in BOOLEAN :
          SupReadLine(i, line, vf, mf)
    \/ \E i \in 1..Len(tasks), vf, mf \in BOOLEAN : SupReadEOF(i, vf, mf)
    \/ \E i \in 1..Len(tasks) : SupReadError(i)
    \/ \E i \in 1..Len(tasks), vf, mf \in BOOLEAN : SupProcessExited(i, vf, mf)
    \/ \E i \in 1..Len(tasks) : SupTerminateWait(i)
    \/ \E i \in 1..Len(tasks) : SupKillWait(i)
    \/ \E i \in 1..Len(tasks) : SupExcTerminateWait(i)
    \/ \E i \in 1..Len(tasks) : SupExcKillWait(i)
    \/ \E i \in 1..Len(tasks), line \in OutputLines : SupExcDrainLine(i, line)
    \/ \E i \in 1..Len(tasks) : SupExcDrainEnd(i)
    \/ \E i \in 1..Len(tasks), code \in ExitCodes : ChildExit(i, code)

\* the orchestrator from an empty store
Spec == Init /\ [][Next]_vars

\* all aliases of second 0 but the last are taken
InitAlias == InitWith(MaxCounter - 1, None)

\* the orchestrator from a store one trigger away from the end of the
\* collision loop
SpecAlias == InitAlias /\ [][Next]_vars

----------------------------------------------------------------------------
(* Hyperparameter resolution: every request body against every schedule *)

\* runs the resolution runs may insert
MaxHyperRuns == 1

\* what a member of the request body may be
JsonChoices == {Omitted, JsonNull, JsonNum(0), JsonNum(7)}

HyperBodies ==
    [triggered_by : TriggerType, rank : JsonChoices, regParam : JsonChoices,
     alpha : JsonChoices, maxIter : JsonChoices]

\* the training_schedule row: absent, or with each hyperparameter column
\* NULL, 0 or 20
ScheduleColumn == {None, Some(0), Some(20)}

Schedules ==
    {None} \cup {Some(r) : r \in [cron_expression : {DailyCron}, is_paused : {FALSE},
                                  rank : ScheduleColumn, regParam : ScheduleColumn,
                                  alpha : ScheduleColumn, maxIter : ScheduleColumn]}

InitHyper == \E sched \in Schedules : InitWith(0, sched)

TriggerAny(body) ==
    /\ Len(runs) < MaxHyperRuns
    /\ trigger_manual_run(body)

NextHyper ==
    \/ \E body \in HyperBodies : TriggerAny(body)
    \/ Tick

\* the trigger handler alone, for any body and schedule
SpecHyper == InitHyper /\ [][NextHyper]_vars

----------------------------------------------------------------------------
(* Publication: one run whose child prints metric lines *)

\* runs the publication runs may insert
MaxPublishRuns == 1

\* output lines the child of a publication run may emit
MaxMetricLines == 2

\* lines a child may print in the publication runs
MetricOutputLines ==
    {TextLine, MetricLine(10, SixFields(5)), MetricLine(20, SixFields(5)),
     NdcgLine(Num(7))}

TriggerPublish(body) ==
    /\ Len(runs) < MaxPublishRuns
    /\ trigger_manual_run(body)

\* readline() returns a line the child printed
SupReadMetricLine(i, line, versionCommitFails, metricsCommitFails) ==
    /\ tasks[i].pc = "read"
    /\ tasks[i].emitted < MaxMetricLines
    /\ Store(LineRead(Frame(i), line, versionCommitFails, metricsCommitFails))

\* the steps of a run that no later trigger pre-empts
NextPublish ==
    \/ \E body \in Bodies : TriggerPublish(body)
    \/ Tick
    \/ \E i \in 1..Len(tasks), o \in StartOutcomes : SupStart(i, o)
    \/ \E i \in 1..Len(tasks) : SupLoop(i)
    \/ \E i \in 1..Len(tasks), line \in MetricOutputLines, vf, mf \in BOOLEAN :
          SupReadMetricLine(i, line, vf, mf)
    \/ \E i \in 1..Len(tasks), vf, mf \in BOOLEAN : SupReadEOF(i, vf, mf)
    \/ \E i \in 1..Len(tasks) : SupReadError(i)
    \/ \E i \in 1..Len(tasks), vf, mf \in BOOLEAN : SupProcessExited(i, vf, mf)
    \/ \E i \in 1..Len(tasks) : SupExcTerminateWait(i)
    \/ \E i \in 1..Len(tasks) : SupExcKillWait(i)
    \/ \E i \in 1..Len(tasks), line \in MetricOutputLines : SupExcDrainLine(i, line)
    \/ \E i \in 1..Len(tasks) : SupExcDrainEnd(i)
    \/ \E i \in 1..Len(tasks), code \in ExitCodes : ChildExit(i, code)

\* one run from trigger to publication
SpecPublish == Init /\ [][NextPublish]_vars

----------------------------------------------------------------------------
(* The read endpoints *)

\* ModelRunResponse of lines 343-360, with the row's position as its id
RunResponse(i, row) ==
    [code |-> 200, err |-> "", id |-> i, run_id |-> row.run_id, status |-> row.status,
     start_time |-> row.start_time, end_time |-> row.end_time,
     duration |-> row.duration, triggered_by |-> row.triggered_by, logs |-> row.logs,
     hyper_parameters |->
        IF ~IsNone(row.rank)
        THEN Some([rank |-> Get(row.rank), regParam |-> Get(row.regParam),
                   alpha |-> Get(row.alpha), maxIter |-> Get(row.maxIter)])
        ELSE None]

\* the path parameter {run_id}: a primary key or a run_id
ById(n) == [by |-> "id", id |-> n, run_id |-> generate_run_id("manual", 0)]
ByRunId(run_id) == [by |-> "run_id", id |-> 0, run_id |-> run_id]

\* or_(ModelRun.id == run_id, ModelRun.run_id == run_id)
MatchesKey(store, i, key) ==
    IF key.by = "id" THEN i = key.id ELSE store[i].run_id = key.run_id

\* .first(): the position of the row found, 0 for None
FindRun(store, key) ==
    IF \E i \in 1..Len(store) : MatchesKey(store, i, key)
    THEN CHOOSE i \in 1..Len(store) : MatchesKey(store, i, key)
    ELSE 0

\* GET /runs/{run_id}
get_single_model_run(key) ==
    LET i == FindRun(runs, key)
    IN  /\ resp' = IF i = 0 THEN HttpError(404, "NOT_FOUND") ELSE RunResponse(i, runs[i])
        /\ UNCHANGED <<runs, tasks, schedule, versions, metrics, now, nTrig>>

\* the answer of GET /runs/{run_id}/logs; the size is counted in blocks
LogsResponse(row) ==
    [code |-> 200, err |-> "", run_id |-> row.run_id, logs |-> LogsOrEmpty(row.logs),
     log_size |-> Len(LogsOrEmpty(row.logs))]

\* mutant: the read stores the "" it answers for a NULL log
get_run_logs_storing(key) ==
    LET i == FindRun(runs, key)
    IN  /\ resp' = IF i = 0 THEN HttpError(404, "NOT_FOUND") ELSE LogsResponse(runs[i])
        /\ runs' = IF i = 0 THEN runs
                   ELSE [runs EXCEPT ![i].logs = Some(LogsOrEmpty(runs[i].logs))]
        /\ UNCHANGED <<tasks, schedule, versions, metrics, now, nTrig>>

\* GET /runs/{run_id}/logs
get_run_logs(key) ==
    LET i == FindRun(runs, key)
    IN  /\ resp' = IF i = 0 THEN HttpError(404, "NOT_FOUND") ELSE LogsResponse(runs[i])
        /\ UNCHANGED <<runs, tasks, schedule, versions, metrics, now, nTrig>>

\* the status values the list accepts as a filter (line 259)
ListStatusFilter == {"success", "failed", "running", "queued"}

\* the trigger types the list accepts as a filter (line 271)
ListTriggerFilter == {"manual", "scheduled"}

\* a query parameter is applied when it is a non-empty string
Applies(param) == ~IsNone(param) /\ Get(param) # ""

\* the rows the filters of lines 258-280 keep
Filtered(store, status, triggered_by) ==
    {i \in 1..Len(store) :
        /\ Applies(status) => store[i].status = Get(status)
        /\ Applies(triggered_by) => store[i].triggered_by = Get(triggered_by)}

\* order_by(start_time): the orders of the rows a result may have; rows with
\* equal start_time come in an order the query does not fix
Orderings(store, ids, order) ==
    {o \in [1..Cardinality(ids) -> ids] :
        /\ \A a, b \in 1..Cardinality(ids) : a # b => o[a] # o[b]
        /\ \A a, b \in 1..Cardinality(ids) :
              a < b => IF order = "ASC"
                       THEN store[o[a]].start_time <= store[o[b]].start_time
                       ELSE store[o[a]].start_time >= store[o[b]].start_time}

\* ModelRunListResponse: the rows of the page and the pagination
ListResponse(store, ordered, page, limit) ==
    LET total == Len(ordered)
        offset == (page - 1) * limit
        last == IF offset + limit < total THEN offset + limit ELSE total
    IN  [code |-> 200, err |-> "",
         data |-> [n \in 1..(IF last > offset THEN last - offset ELSE 0) |->
                      RunResponse(ordered[offset + n], store[ordered[offset + n]])],
         page |-> page, limit |-> limit, total |-> total,
         total_pages |-> IF total > 0 THEN (total + limit - 1) \div limit ELSE 0]

\* GET /runs
get_all_model_runs(status, triggered_by, page, limit, order) ==
    /\ IF Applies(status) /\ Get(status) \notin ListStatusFilter
       THEN resp' = HttpError(400, "VALIDATION_ERROR")
       ELSE IF Applies(triggered_by) /\ Get(triggered_by) \notin ListTriggerFilter
            THEN resp' = HttpError(400, "VALIDATION_ERROR")
            ELSE \E ordered \in Orderings(runs, Filtered(runs, status, triggered_by), order) :
                    resp' = ListResponse(runs, ordered, page, limit)
    /\ UNCHANGED <<runs, tasks, schedule, versions, metrics, now, nTrig>>

\* round(a / b, 2) of a quotient held in hundredths: a / b to the nearest unit
RoundDiv(a, b) == (2 * a + b) \div (2 * b)

\* sum(1 for r in all_runs if r.status == status)
CountStatus(store, status) ==
    Cardinality({i \in 1..Len(store) : store[i].status = status})

RECURSIVE SumSeconds(_, _)
\* the seconds the runs of ids lasted, added up
SumSeconds(store, ids) ==
    IF ids = {} THEN 0
    ELSE LET i == CHOOSE x \in ids : TRUE
         IN  Get(store[i].end_time) - store[i].start_time + SumSeconds(store, ids \ {i})

\* lines 1090-1102, in hundredths of a minute; a zero average reads as None
AverageDurationMinutes(store) ==
    LET completed_runs == {i \in 1..Len(store) :
                              /\ ~IsNone(store[i].duration)
                              /\ store[i].status \in {"success", "failed"}}
        counted == {i \in completed_runs : ~IsNone(store[i].end_time)}
        total_seconds == SumSeconds(store, counted)
    IN  IF counted = {} \/ total_seconds = 0 THEN None
        ELSE Some(RoundDiv(total_seconds * 100, 60 * Cardinality(counted)))

\* order_by(start_time.desc()).first(): a row of the latest start_time
LastRuns(store) ==
    {i \in 1..Len(store) : \A j \in 1..Len(store) : store[j].start_time <= store[i].start_time}

\* the counts, the rate (hundredths of a percent) and the average of
\* TrainingStatistics
Aggregates(store) ==
    [total_runs |-> Len(store),
     success_count |-> CountStatus(store, "success"),
     failed_count |-> CountStatus(store, "failed"),
     running_count |-> CountStatus(store, "running"),
     queued_count |-> CountStatus(store, "queued"),
     cancelled_count |-> CountStatus(store, "cancelled"),
     success_rate |-> IF Len(store) > 0
                      THEN RoundDiv(CountStatus(store, "success") * 10000, Len(store))
                      ELSE 0,
     average_duration_minutes |-> AverageDurationMinutes(store)]

\* TrainingStatistics(...); calculate_next_run always answers None
StatisticsResponse(store, last) ==
    [code |-> 200, err |-> "", aggregates |-> Aggregates(store),
     last_run |-> IF last = 0 THEN None ELSE Some(RunResponse(last, store[last])),
     next_scheduled_run |-> None]

\* GET /statistics
get_training_statistics ==
    /\ \E last \in (IF runs = <<>> THEN {0} ELSE LastRuns(runs)) :
          resp' = StatisticsResponse(runs, last)
    /\ UNCHANGED <<runs, tasks, schedule, versions, metrics, now, nTrig>>

----------------------------------------------------------------------------
(* Reads of a store that earlier triggers have filled *)

\* runs in the store the reads look at
MaxReadRuns == 2

\* how far the supervisor of a run got before the next trigger (or the
\* read): not started, child running, script missing, child exited with 0
ReplayOutcomes == {"queued", "running", "failed", "success"}

ReplaySteps == [src : TriggerType, outcome : ReplayOutcomes]

RECURSIVE PlansOfLen(_)
PlansOfLen(n) ==
    IF n = 0 THEN {<<>>}
    ELSE {Append(plan, step) : plan \in PlansOfLen(n - 1), step \in ReplaySteps}

Replays == UNION {PlansOfLen(n) : n \in 0..MaxReadRuns}

RECURSIVE Replay(_)
\* the tables after one trigger per step of the plan, the supervisor of each
\* run having got as far as the step says; a success takes TickSeconds
Replay(plan) ==
    IF plan = <<>>
    THEN [runs |-> <<>>, tasks |-> <<>>, vers |-> <<>>, mets |-> {}, t |-> 0]
    ELSE LET prev == Replay(SubSeq(plan, 1, Len(plan) - 1))
             step == plan[Len(plan)]
             store == CancelExisting(prev.runs, prev.t)
             row == NewRun(ChooseRunId(store, step.src, prev.t), step.src,
                           FallbackDefault, prev.t)
             F0 == [row |-> row, tk |-> NewTask(FallbackDefault), vers |-> prev.vers,
                    mets |-> prev.mets, t |-> prev.t, id |-> Len(store) + 1]
             spawned == Start(F0, "spawned")
             F == CASE step.outcome = "queued" -> F0
                    [] step.outcome = "running" -> spawned
                    [] step.outcome = "failed" -> Start(F0, "script_missing")
                    [] OTHER -> Completed([spawned EXCEPT !.tk.proc = "exited",
                                                          !.t = prev.t + TickSeconds],
                                          FALSE, FALSE)
         IN  [runs |-> Append(store, F.row), tasks |-> Append(prev.tasks, F.tk),
              vers |-> F.vers, mets |-> F.mets, t |-> F.t]

InitRead ==
    \E plan \in Replays :
        /\ runs = Replay(plan).runs
        /\ tasks = Replay(plan).tasks
        /\ schedule = None
        /\ versions = Replay(plan).vers
        /\ metrics = Replay(plan).mets
        /\ now = Replay(plan).t
        /\ resp = NoResponse
        /\ nTrig = Len(plan)

\* the query parameters status and triggered_by of GET /runs
StatusParams == {None, Some("")} \cup {Some(v) : v \in RunStatus \cup {"bogus"}}
TriggerParams == {None} \cup {Some(v) : v \in TriggerType \cup {"bogus"}}

\* page (ge=1), limit (ge=1, le=100, default 50) and order
Pages == {1, 2}
Limits == {1, 50}
Orders == {"ASC", "DESC"}

\* the path parameters of the point reads
LookupKeys ==
    {ById(n) : n \in 1..(MaxReadRuns + 1)}
    \cup {ByRunId(WithSuffix(generate_run_id(src, t), c)) :
             src \in TriggerType, t \in {0, TickSeconds}, c \in {0, 1}}

NextRead ==
    \/ \E status \in StatusParams, triggered_by \in TriggerParams,
          page \in Pages, limit \in Limits, order \in Orders :
          get_all_model_runs(status, triggered_by, page, limit, order)
    \/ \E key \in LookupKeys : get_single_model_run(key)
    \/ \E key \in LookupKeys : get_run_logs(key)
    \/ get_training_statistics

\* the read endpoints on every store of up to MaxReadRuns runs
SpecRead == InitRead /\ [][NextRead]_vars

----------------------------------------------------------------------------
(* Metric extraction: one run whose child prints lines of every format *)

\* output lines the child of an extraction run may emit
MaxParseLines == 3

\* lines a child may print in the extraction runs: plain text, structured
\* lines, NDCG@10 lines, an NDCG@10 line and a structured line with a number
\* float() rejects, and a line that carries both formats, as in
\* "METRIC|k=10|... NDCG@10 = 9"
ParseLines ==
    {TextLine, MetricLine(10, SixFields(5)), MetricLine(10, SixFields(6)),
     MetricLine(20, SixFields(5)), NdcgLine(Num(7)), NdcgLine(Num(9)),
     NdcgLine(Malformed),
     MetricLine(10, [SixFields(8) EXCEPT !["map"] = Malformed]),
     [text |-> TRUE, metric |-> Some([k |-> 10, fields |-> SixFields(5)]),
      ndcg |-> Some(Num(9))]}

\* readline() returns a line the child printed
SupReadParseLine(i, line, versionCommitFails, metricsCommitFails) ==
    /\ tasks[i].pc = "read"
    /\ tasks[i].emitted < MaxParseLines
    /\ Store(LineRead(Frame(i), line, versionCommitFails, metricsCommitFails))

\* the steps of a run that no later trigger pre-empts, and a client that
\* fetches its log between any two of them
NextParse ==
    \/ \E body \in Bodies : TriggerPublish(body)
    \/ \E i \in 1..Len(tasks), o \in StartOutcomes : SupStart(i, o)
    \/ \E i \in 1..Len(tasks) : SupLoop(i)
    \/ \E i \in 1..Len(tasks), line \in ParseLines, vf, mf \in BOOLEAN :
          SupReadParseLine(i, line, vf, mf)
    \/ \E i \in 1..Len(tasks), vf, mf \in BOOLEAN : SupReadEOF(i, vf, mf)
    \/ \E i \in 1..Len(tasks) : SupReadError(i)
    \/ \E i \in 1..Len(tasks), vf, mf \in BOOLEAN : SupProcessExited(i, vf, mf)
    \/ \E i \in 1..Len(tasks) : SupExcTerminateWait(i)
    \/ \E i \in 1..Len(tasks) : SupExcKillWait(i)
    \/ \E i \in 1..Len(tasks), line \in ParseLines : SupExcDrainLine(i, line)
    \/ \E i \in 1..Len(tasks) : SupExcDrainEnd(i)
    \/ \E i \in 1..Len(tasks), code \in ExitCodes : ChildExit(i, code)
    \/ \E key \in LookupKeys : get_run_logs(key)

\* one run whose output mixes structured, legacy and malformed lines
SpecParse == Init /\ [][NextParse]_vars

----------------------------------------------------------------------------
(* Activation: a run published into a store that already has a version *)

\* runs in the store of the activation runs, the earlier one included
MaxActiveRuns == 2

\* ActiveModelVersionResponse of lines 1253-1263
ActiveVersionResponse(id, row) ==
    [code |-> 200, err |-> "", id |-> id, version_tag |-> row.version_tag,
     isActive |-> row.isActive]

\* mutant: the other versions are not reset
set_active_without_reset(model_version_id) ==
    /\ IF model_version_id \notin 1..Len(versions)
       THEN /\ resp' = HttpError(404, "NOT_FOUND")
            /\ versions' = versions
       ELSE /\ versions' = [versions EXCEPT ![model_version_id].isActive = TRUE]
            /\ resp' = ActiveVersionResponse(model_version_id,
                                             versions'[model_version_id])
    /\ UNCHANGED <<runs, tasks, schedule, metrics, now, nTrig>>

\* POST /model-versions/active: no await inside, one step of the event loop
set_active_model_version(model_version_id) ==
    /\ IF model_version_id \notin 1..Len(versions)
       THEN /\ resp' = HttpError(404, "NOT_FOUND")
            /\ versions' = versions
       ELSE /\ versions' = [[v \in 1..Len(versions) |-> [versions[v] EXCEPT !.isActive = FALSE]] EXCEPT
                               ![model_version_id].isActive = TRUE]
            /\ resp' = ActiveVersionResponse(model_version_id,
                                             versions'[model_version_id])
    /\ UNCHANGED <<runs, tasks, schedule, metrics, now, nTrig>>

\* the ids a request may name: those of the store and the next one
VersionIds == 1..(Len(versions) + 1)

\* the tables after one earlier run that was published
PublishedOnce == Replay(<<[src |-> "manual", outcome |-> "success"]>>)

InitActive ==
    /\ runs = PublishedOnce.runs
    /\ tasks = PublishedOnce.tasks
    /\ schedule = None
    /\ versions = PublishedOnce.vers
    /\ metrics = PublishedOnce.mets
    /\ now = PublishedOnce.t
    /\ resp = NoResponse
    /\ nTrig = 0

TriggerActive(body) ==
    /\ Len(runs) < MaxActiveRuns
    /\ trigger_manual_run(body)

\* the steps of a run that no later trigger pre-empts, and the activation
NextActive ==
    \/ \E body \in Bodies : TriggerActive(body)
    \/ \E i \in 1..Len(tasks), o \in StartOutcomes : SupStart(i, o)
    \/ \E i \in 1..Len(tasks) : SupLoop(i)
    \/ \E i \in 1..Len(tasks), line \in OutputLines, vf, mf \in BOOLEAN :
          SupReadLine(i, line, vf, mf)
    \/ \E i \in 1..Len(tasks), vf, mf \in BOOLEAN : SupReadEOF(i, vf, mf)
    \/ \E i \in 1..Len(tasks) : SupReadError(i)
    \/ \E i \in 1..Len(tasks), vf, mf \in BOOLEAN : SupProcessExited(i, vf, mf)
    \/ \E i \in 1..Len(tasks) : SupExcTerminateWait(i)
    \/ \E i \in 1..Len(tasks) : SupExcKillWait(i)
    \/ \E i \in 1..Len(tasks), line \in OutputLines : SupExcDrainLine(i, line)
    \/ \E i \in 1..Len(tasks) : SupExcDrainEnd(i)
    \/ \E i \in 1..Len(tasks), code \in ExitCodes : ChildExit(i, code)
    \/ \E vid \in VersionIds : set_active_model_version(vid)

\* a second run beside activations of the versions
SpecActive == InitActive /\ [][NextActive]_vars

----------------------------------------------------------------------------
(* The schedule endpoints *)

\* cron expressions of the requests: "0 0 * * *", " 0 0 * * * ", "0 0 * *",
\* "0 0 * * * *", "x", " " and ""
CronSamples ==
    {DailyCron, <<" ">> \o DailyCron \o <<" ">>, SubSeq(DailyCron, 1, 7),
     DailyCron \o <<" ", "*">>, <<"x">>, <<" ">>, <<>>}

\* bodies of PUT /schedule (TrainingScheduleUpdate)
ScheduleUpdates ==
    [cron_expression : {None} \cup {Some(c) : c \in CronSamples},
     is_paused : {None, Some(TRUE)},
     rank : {None, Some(20)}, regParam : {None}, alpha : {None}, maxIter : {None}]

NextSchedule ==
    \/ \E request \in ScheduleUpdates : update_training_schedule(request)
    \/ get_training_schedule
    \/ pause_schedule
    \/ resume_schedule

\* the schedule endpoints, from no schedule or any stored schedule
SpecSchedule == InitHyper /\ [][NextSchedule]_vars

----------------------------------------------------------------------------
(* Durations: a run left queued since start_time, pre-empted by a trigger  *)
(* that arrives any whole number of seconds later                          *)

\* longest span between start and end, in seconds (1d 1h 1m 1s)
MaxDurationSeconds == 90061

\* runs in the store after the pre-empting trigger
MaxDurationRuns == 2

\* one queued run whose task has not started, and the clock at or after its
\* start time
InitDuration ==
    \E start_time \in {0, 59}, total_seconds \in 0..MaxDurationSeconds :
        /\ runs = <<NewRun(generate_run_id("manual", start_time), "manual",
                           FallbackDefault, start_time)>>
        /\ tasks = <<NewTask(FallbackDefault)>>
        /\ schedule = None
        /\ versions = <<>>
        /\ metrics = {}
        /\ now = start_time + total_seconds
        /\ resp = NoResponse
        /\ nTrig = 0

TriggerDuration(body) ==
    /\ Len(runs) < MaxDurationRuns
    /\ trigger_manual_run(body)

NextDuration == \E body \in Bodies : TriggerDuration(body)

\* the pre-emption of line 392 over every span up to MaxDurationSeconds
SpecDuration == InitDuration /\ [][NextDuration]_vars

----------------------------------------------------------------------------
(* Properties *)

RunIds == 1..Len(runs)

\* the runs whose persisted status is queued or running
ActiveRuns == {i \in RunIds : runs[i].status \in ActiveStatus}

\* a step of the trigger handler (nothing else counts requests)
TriggerStep == nTrig' = nTrig + 1

\* a step of the trigger handler that inserted a run
InsertStep == TriggerStep /\ Len(runs') = Len(runs) + 1

HasToken(logs, kind) ==
    \E n \in 1..Len(LogsOrEmpty(logs)) : LogsOrEmpty(logs)[n].k = kind

\* C1: in every reachable state at most one run has persisted status queued
\* or running, whatever the interleaving of triggers and supervisor steps.
C1_SingleActiveRun == Cardinality(ActiveRuns) <= 1

\* C1 witness: a run pre-empted while its supervisor is suspended at an
\* await, next to the run that replaced it, which is running.
C1_Witness ==
    \E i, j \in RunIds :
        /\ i # j
        /\ runs[i].status = "cancelled"
        /\ tasks[i].pc \in {"loop", "read", "wait"}
        /\ runs[j].status = "running"

\* C2: success, failed and cancelled are absorbing: no step changes a
\* terminal persisted status to another value.
C2_TerminalAbsorbing ==
    [][\A i \in RunIds :
          runs[i].status \in TerminalStatus => runs'[i].status = runs[i].status]_vars

\* C3: a nonzero exit code or an exception marks the run failed unless its
\* persisted status is already cancelled, and a cancelled run is never
\* reclassified as failed.
C3_CancelledNotFailed ==
    [][\A i \in RunIds :
          /\ runs[i].status = "cancelled" => runs'[i].status # "failed"
          /\ (/\ runs[i].status = "running"
              /\ tasks[i].pc = "wait"
              /\ tasks'[i].pc = "done"
              /\ tasks[i].rc # 0) => runs'[i].status = "failed"]_vars

\* C4: at most one child training process is alive at any time.
C4_OneChildProcess ==
    Cardinality({i \in 1..Len(tasks) : tasks[i].proc = "alive"}) <= 1

\* C5: a trigger leaves every run that was queued or running cancelled, with
\* end time and duration set (the duration computed from start and end time)
\* and the pre-emption line appended to its log; the run it inserts is then
\* the only queued or running run.
C5_Preemption ==
    [][TriggerStep =>
          /\ \A i \in RunIds :
                runs[i].status \in ActiveStatus =>
                   /\ runs'[i].status = "cancelled"
                   /\ runs'[i].end_time = Some(now)
                   /\ ~IsNone(runs'[i].duration)
                   /\ runs'[i].duration =
                         calculate_duration(runs[i].start_time, runs'[i].end_time)
                   /\ Get(runs'[i].logs) =
                         LogsOrEmpty(runs[i].logs) \o <<Tok("preempt", 0)>>
          /\ InsertStep => ActiveRuns' = {Len(runs')}]_vars

\* C5 witness: a run pre-empted while running, one hour and two minutes
\* after it started, and the new run as the only active one.
C5_Witness ==
    \E i \in RunIds :
        /\ runs[i].status = "cancelled"
        /\ HasToken(runs[i].logs, "started")
        /\ Get(runs[i].logs)[Len(Get(runs[i].logs))] = Tok("preempt", 0)
        /\ runs[i].duration = Some(<<[n |-> 1, u |-> "h"], [n |-> 2, u |-> "m"]>>)
        /\ resp.code = 201
        /\ ActiveRuns = {resp.id}
        /\ resp.id # i

\* C6: a successful trigger inserts exactly one run, queued with no end time
\* and no duration, answers with that run as queued, and only registers the
\* supervisor task: no supervisor step and no child process is part of it.
C6_TriggerReturnsQueued ==
    [][(TriggerStep /\ resp'.code = 201) =>
          LET id == Len(runs')
          IN  /\ Len(runs') = Len(runs) + 1
              /\ Len(tasks') = Len(runs')
              /\ runs'[id].status = "queued"
              /\ IsNone(runs'[id].end_time)
              /\ IsNone(runs'[id].duration)
              /\ resp'.id = id
              /\ resp'.status = "queued"
              /\ tasks'[id].pc = "start"
              /\ tasks'[id].proc = "none"
              /\ \A i \in 1..Len(tasks) : tasks'[i] = tasks[i]]_vars

\* C6 witness: the answer to a second trigger, while the first run's child
\* is still alive and the new run's task has not started.
C6_Witness ==
    /\ resp.code = 201
    /\ resp.id = 2
    /\ runs[2].status = "queued"
    /\ tasks[2].pc = "start"
    /\ tasks[1].proc = "alive"

\* the explicit values of a request body are the ones stored and passed on
ExplicitKept(body, row, tk) ==
    \A f \in HyperFields :
        body[f].k = "value" => /\ row[f] = Some(body[f].v)
                               /\ tk.args[f] = body[f].v

\* C7: every value the caller supplies for rank, regParam, alpha or
\* maxIter, 0 and 0.0 included, is the value stored on the new run and
\* passed to the supervisor.
C7_ExplicitValuesWin ==
    [][\A body \in HyperBodies :
          TriggerAny(body) => ExplicitKept(body, runs'[Len(runs')], tasks'[Len(runs')])]_vars

\* the value the schedule tier gives a field: the stored one, else the literal
ScheduleOrFallback(f) ==
    IF ~IsNone(schedule) /\ ~IsNone(Get(schedule)[f])
    THEN Get(Get(schedule)[f])
    ELSE FallbackDefault[f]

\* C8: on a scheduled trigger every field the request leaves out takes the
\* schedule's stored value, and the literal default only when the schedule
\* has none.
C8_OmittedTakesSchedule ==
    [][\A body \in HyperBodies :
          (body.triggered_by = "scheduled" /\ TriggerAny(body)) =>
             \A f \in HyperFields :
                body[f].k = "omitted" =>
                   runs'[Len(runs')][f] = Some(ScheduleOrFallback(f))]_vars

\* C9: no two runs of the store share a run_id: the store holds as many
\* distinct run_ids as runs.
C9_UniqueRunIds == Cardinality({runs[i].run_id : i \in RunIds}) = Len(runs)

\* C9 witness: the hundredth alias of a second is in the store and a further
\* trigger of that second was refused.
C9_Witness ==
    /\ \E i \in RunIds : runs[i].run_id.sfx = MaxCounter - 1 /\ runs[i].run_id.ts = now
    /\ Len(runs) = MaxCounter
    /\ resp.code = 500

\* the base alias of this second and its forms _1 .. _99 are all taken
AllAliasesTaken(triggered_by) ==
    \A c \in 0..(MaxCounter - 1) :
        RunIdExists(runs, WithSuffix(generate_run_id(triggered_by, now), c))

\* C10: with the base alias and _1 .. _99 all taken, the trigger ends in the
\* identifier-generation failure IdentifierExhausted and inserts no run.
C10_ExhaustionIsSignalled ==
    [][\A body \in Bodies :
          (AllAliasesTaken(body.triggered_by) /\ trigger_manual_run(body)) =>
             /\ resp'.err = "IdentifierExhausted"
             /\ Len(runs') = Len(runs)]_vars

\* the changes of status the run state machine allows
LegalTransitions ==
    {<<"queued", "running">>, <<"queued", "cancelled">>, <<"running", "success">>,
     <<"running", "failed">>, <<"running", "cancelled">>}

\* C11: every change of a persisted status follows the run state machine:
\* a new row is queued, running comes only from queued, success and failed
\* only from running, cancelled only from queued or running, and no run
\* returns to queued.  The supervisor's changes are those its commits made,
\* the trigger's are read off its step.
C11_RunStateMachine ==
    [][/\ \A i \in 1..Len(tasks') : tasks'[i].committed \subseteq LegalTransitions
       /\ TriggerStep =>
             /\ \A i \in RunIds :
                   runs'[i].status # runs[i].status =>
                      <<runs[i].status, runs'[i].status>> \in LegalTransitions
             /\ \A i \in (1..Len(runs')) \ RunIds : runs'[i].status = "queued"]_vars

\* C12: a run whose supervisor task has returned has a persisted terminal
\* status and an end time, whatever path the task took (the form of "every
\* run is eventually driven to a terminal state" that a finite run refutes).
C12_DrivenToTerminal ==
    \A i \in RunIds :
        tasks[i].pc = "done" =>
           /\ runs[i].status \in TerminalStatus
           /\ ~IsNone(runs[i].end_time)

\* the supervisor of run i collects return code 0 and the database accepts
\* the commits of the publication
SuccessStep(i) ==
    /\ ~ReturncodeIsNone(tasks[i])
    /\ tasks[i].rc = 0
    /\ runs[i].status # "cancelled"
    /\ SupProcessExited(i, FALSE, FALSE) \/ SupReadEOF(i, FALSE, FALSE)

\* the names the metric types are saved under
SavedName(m) ==
    CASE m = "precision" -> "Precision" [] m = "recall" -> "Recall"
      [] m = "map" -> "Map" [] m = "ndcg" -> "Ndcg"
      [] m = "coverage" -> "Coverage" [] m = "hitRate" -> "Hitrate"

\* C13: when the supervisor collects return code 0 for a run that is not
\* cancelled, the run ends as success, exactly one model version is created,
\* and the metric rows created are exactly one row per cutoff k of the
\* extracted metrics and metric type present for k, named type@k and
\* attached to the new version.
C13_SuccessPath ==
    [][\A i \in RunIds :
          SuccessStep(i) =>
             LET extracted == tasks[i].extracted_metrics
                 vid == Len(versions')
                 rows == metrics' \ metrics
                 pairs == UNION {{<<k, m>> : m \in DOMAIN extracted[k]} : k \in DOMAIN extracted}
             IN  /\ runs'[i].status = "success"
                 /\ Len(versions') = Len(versions) + 1
                 /\ \A v \in 1..Len(versions) : versions'[v] = versions[v]
                 /\ versions'[vid].version_tag = tasks[i].version_tag
                 /\ metrics \subseteq metrics'
                 /\ Cardinality(rows) = Cardinality(pairs)
                 /\ \A r \in rows : r.model_version_id = vid
                 /\ \A q \in pairs :
                       Cardinality({r \in rows :
                                      /\ r.metric_name.k = q[1]
                                      /\ r.metric_name.type = SavedName(q[2])
                                      /\ r.metric_value = extracted[q[1]][q[2]]}) = 1]_vars

\* C13 witness: two structured lines for k=10 and k=20, return code 0: the
\* run is a success with one model version and twelve metric rows.
C13_Witness ==
    /\ Len(runs) = 1
    /\ runs[1].status = "success"
    /\ tasks[1].pc = "done"
    /\ DOMAIN tasks[1].extracted_metrics = {10, 20}
    /\ Len(versions) = 1
    /\ Cardinality(metrics) = 12
    /\ Cardinality({r \in metrics : r.metric_name.k = 10 /\ r.model_version_id = 1}) = 6
    /\ HasToken(runs[1].logs, "metrics_saved")

\* the log holds this very block of text
HasTok(logs, tok) ==
    \E n \in 1..Len(LogsOrEmpty(logs)) : LogsOrEmpty(logs)[n] = tok

\* C14: when the supervisor collects a nonzero return code for a run whose
\* persisted status is not cancelled, the run ends failed, no model version
\* and no metric row is created, and the log names the return code.
C14_FailurePath ==
    [][\A i \in RunIds :
          (/\ tasks[i].pc \in {"read", "wait"}
           /\ tasks'[i].pc = "done"
           /\ ~ReturncodeIsNone(tasks[i])
           /\ tasks[i].rc # 0
           /\ runs[i].status # "cancelled") =>
             /\ runs'[i].status = "failed"
             /\ runs'[i].end_time = Some(now)
             /\ versions' = versions
             /\ metrics' = metrics
             /\ HasTok(runs'[i].logs, Tok("completed", tasks[i].rc))
             /\ HasTok(runs'[i].logs, Tok("failed_rc", tasks[i].rc))]_vars

\* C14 witness: a run whose child exited with code 2 was closed as failed
\* and nothing was published.
C14_Witness ==
    \E i \in RunIds :
        /\ tasks[i].pc = "done"
        /\ tasks[i].rc = 2
        /\ runs[i].status = "failed"
        /\ HasTok(runs[i].logs, Tok("failed_rc", 2))
        /\ versions = <<>>

\* the supervisor has seen the cancellation and signalled the child
CancelPcs == {"term_loop", "kill_loop", "term_post", "kill_post"}

\* C15: a supervisor that finds its run cancelled while the child is alive
\* signals the child; from then on the status stays cancelled, and the
\* supervisor returns with end time and duration set, the cancellation
\* notices in the log, and neither model version nor metric row created.
C15_CancelDuringStreaming ==
    [][\A i \in RunIds :
          /\ (/\ tasks[i].pc \in {"loop", "read"}
              /\ runs[i].status = "cancelled"
              /\ tasks[i].proc = "alive"
              /\ tasks'[i].pc # tasks[i].pc) =>
                 tasks'[i].pc \in {"term_loop", "term_post", "exc_term"}
          /\ tasks'[i].pc \in CancelPcs => runs'[i].status = "cancelled"
          /\ (tasks[i].pc \in CancelPcs /\ tasks'[i].pc = "done") =>
                 /\ runs'[i].status = "cancelled"
                 /\ runs'[i].end_time = Some(now)
                 /\ ~IsNone(runs'[i].duration)
                 /\ runs'[i].duration =
                       calculate_duration(runs[i].start_time, Some(now))
                 /\ HasToken(runs'[i].logs, "preempt")
                 /\ HasToken(runs'[i].logs, "cancel_loop")
                       \/ HasToken(runs'[i].logs, "cancel_post")
                 /\ HasToken(runs'[i].logs, "terminated")
                 /\ versions' = versions
                 /\ metrics' = metrics]_vars

\* C15 witness: a run cancelled while its child was printing, closed by its
\* supervisor an hour later after terminate and kill.
C15_Witness ==
    \E i \in RunIds :
        /\ tasks[i].pc = "done"
        /\ runs[i].status = "cancelled"
        /\ HasToken(runs[i].logs, "cancel_loop")
        /\ HasToken(runs[i].logs, "forcekill")
        /\ HasToken(runs[i].logs, "terminated")
        /\ runs[i].duration = Some(<<[n |-> 1, u |-> "h"], [n |-> 2, u |-> "m"]>>)

\* C16: the persisted log of a terminal run explains its status: a
\* cancelled run has a pre-emption or cancellation notice, a failed run the
\* error or the return code, a successful run the completion lines.
C16_LogExplainsTerminal ==
    \A i \in RunIds :
        /\ runs[i].status = "cancelled" =>
              \/ HasToken(runs[i].logs, "preempt")
              \/ HasToken(runs[i].logs, "cancel_loop")
              \/ HasToken(runs[i].logs, "cancel_post")
        /\ runs[i].status = "failed" =>
              \/ HasToken(runs[i].logs, "failed_rc")
              \/ HasToken(runs[i].logs, "exec_error")
              \/ HasToken(runs[i].logs, "fatal")
        /\ runs[i].status = "success" =>
              /\ HasTok(runs[i].logs, Tok("completed", 0))
              /\ HasToken(runs[i].logs, "success")

\* C16 witness: a run cancelled by a trigger whose supervisor has returned,
\* next to a later run that succeeded.
C16_Witness ==
    \E i, j \in RunIds :
        /\ runs[i].status = "cancelled"
        /\ tasks[i].pc = "done"
        /\ HasToken(runs[i].logs, "preempt")
        /\ runs[j].status = "success"
        /\ HasToken(runs[j].logs, "success")

\* C19: an update of the schedule that carries a (non-empty) cron
\* expression which does not have exactly five fields is refused with a
\* validation error and leaves the schedule as it was, whether or not a
\* schedule exists.
C19_MalformedUpdateRejected ==
    [][\A request \in ScheduleUpdates :
          (/\ update_training_schedule(request)
           /\ Truthy(request.cron_expression)
           /\ FieldCount(Get(request.cron_expression)) # 5) =>
             /\ resp'.code = 400
             /\ resp'.err = "VALIDATION_ERROR"
             /\ schedule' = schedule]_vars

\* the runs of the answer of a list request
ListedIds == {resp'.data[n].id : n \in 1..Len(resp'.data)}

\* C17: the list accepts each of the five run states as status filter and
\* then answers with exactly the runs of that status (of the wanted trigger
\* type); any other non-empty status and any trigger type other than manual
\* and scheduled is refused with a validation error.
C17_ListFilters ==
    [][\A status \in StatusParams, triggered_by \in TriggerParams,
         page \in Pages, limit \in Limits, order \in Orders :
          (Applies(status) /\ get_all_model_runs(status, triggered_by, page, limit, order)) =>
             IF /\ Get(status) \in RunStatus
                /\ Applies(triggered_by) => Get(triggered_by) \in TriggerType
             THEN LET wanted == {i \in RunIds :
                                   /\ runs[i].status = Get(status)
                                   /\ Applies(triggered_by) =>
                                         runs[i].triggered_by = Get(triggered_by)}
                  IN  /\ resp'.code = 200
                      /\ resp'.total = Cardinality(wanted)
                      /\ ListedIds \subseteq wanted
                      /\ (page = 1 /\ limit >= Cardinality(wanted)) => ListedIds = wanted
             ELSE /\ resp'.code = 400
                  /\ resp'.err = "VALIDATION_ERROR"]_vars

\* C18: every step of the reads (list, fetch by id, fetch logs, statistics)
\* leaves every table as it was; so the log just fetched is the log a second
\* fetch answers, and the aggregates just answered are those of a second
\* request.
C18_ReadsChangeNothing ==
    [][/\ runs' = runs
       /\ tasks' = tasks
       /\ schedule' = schedule
       /\ versions' = versions
       /\ metrics' = metrics
       /\ \A key \in LookupKeys :
             (get_run_logs(key) /\ FindRun(runs, key) # 0) =>
                resp'.logs = LogsOrEmpty(runs'[FindRun(runs', key)].logs)
       /\ get_training_statistics => resp'.aggregates = Aggregates(runs')]_vars

\* C18 witness: the log of a terminal run has been fetched, by its run_id,
\* from a store of two runs.
C18_Witness ==
    /\ Len(runs) = 2
    /\ "log_size" \in DOMAIN resp
    /\ resp.log_size > 0
    /\ \E i \in RunIds :
          /\ runs[i].run_id = resp.run_id
          /\ runs[i].status \in TerminalStatus
          /\ Get(runs[i].logs) = resp.logs

----------------------------------------------------------------------------
(* Duration rendering *)

UnitSeconds(u) == CASE u = "d" -> 86400 [] u = "h" -> 3600 [] u = "m" -> 60

\* the count a rendering shows for unit u, 0 when the unit is left out
Shown(parts, u) ==
    IF \E j \in 1..Len(parts) : parts[j].u = u
    THEN (CHOOSE p \in {parts[j] : j \in 1..Len(parts)} : p.u = u).n
    ELSE 0

ZeroMinutes == <<[n |-> 0, u |-> "m"]>>

\* parts is the rendering of a span of s seconds: units among d, h, m,
\* largest first and each once, hours below 24 and minutes below 60, the
\* seconds dropped, only non-zero counts shown, and "0m" for less than a
\* minute
Renders(s, parts) ==
    /\ Len(parts) >= 1
    /\ \A j \in 1..Len(parts) : parts[j].u \in {"d", "h", "m"}
    /\ \A j, k \in 1..Len(parts) :
          j < k => UnitSeconds(parts[j].u) > UnitSeconds(parts[k].u)
    /\ Shown(parts, "h") < 24
    /\ Shown(parts, "m") < 60
    /\ LET shown == Shown(parts, "d") * 86400 + Shown(parts, "h") * 3600
                       + Shown(parts, "m") * 60
       IN  shown <= s /\ s < shown + 60
    /\ IF s < 60 THEN parts = ZeroMinutes
       ELSE \A j \in 1..Len(parts) : parts[j].n > 0
    /\ s = 0 => parts = ZeroMinutes
    /\ s = 125 => parts = <<[n |-> 2, u |-> "m"]>>
    /\ s = 3725 => parts = <<[n |-> 1, u |-> "h"], [n |-> 2, u |-> "m"]>>
    /\ s = 90000 => parts = <<[n |-> 1, u |-> "d"], [n |-> 1, u |-> "h"]>>

\* C20: for every run of the store, calculate_duration of its start and end
\* time is null when the end time is null, and otherwise shows the non-zero
\* units among days, hours and minutes of the whole seconds between them,
\* largest first, seconds dropped, "0m" when all three are zero (0 s "0m",
\* 125 s "2m", 3725 s "1h 2m", 90000 s "1d 1h"); a pre-empted run stores
\* that rendering
C20_DurationRendering ==
    \A i \in 1..Len(runs) :
        LET row == runs[i]
            duration == calculate_duration(row.start_time, row.end_time)
        IN  /\ IsNone(row.end_time) => IsNone(duration)
            /\ ~IsNone(row.end_time) =>
                  /\ ~IsNone(duration)
                  /\ Renders(Get(row.end_time) - row.start_time, Get(duration))
            /\ row.status = "cancelled" => row.duration = duration

\* a run pre-empted 90000 seconds after its start shows "1d 1h", and the
\* run inserted by the same request has neither end time nor duration
C20_Witness ==
    /\ Len(runs) = 2
    /\ runs[1].status = "cancelled"
    /\ runs[1].end_time = Some(runs[1].start_time + 90000)
    /\ runs[1].duration = Some(<<[n |-> 1, u |-> "d"], [n |-> 1, u |-> "h"]>>)
    /\ IsNone(runs[2].end_time)
    /\ IsNone(runs[2].duration)

----------------------------------------------------------------------------
(* Hyperparameter columns *)

\* C21: every run of the store has rank, regParam, alpha and maxIter all set
\* or all absent, whatever members the request bodies supplied, gave as null
\* or left out and whatever the schedule row holds
C21_HyperAllOrNone ==
    \A i \in 1..Len(runs) :
        \/ \A f \in HyperFields : ~IsNone(runs[i][f])
        \/ \A f \in HyperFields : IsNone(runs[i][f])

\* C21 witness: a scheduled run over a schedule row with only some columns
\* set: rank from the schedule, maxIter from the request, the other two from
\* the literals
C21_Witness ==
    /\ ~IsNone(schedule)
    /\ Get(schedule).rank = Some(20)
    /\ IsNone(Get(schedule).regParam)
    /\ Get(schedule).alpha = Some(0)
    /\ Len(runs) = 1
    /\ runs[1].triggered_by = "scheduled"
    /\ runs[1].rank = Some(20)
    /\ runs[1].regParam = Some(FallbackDefault.regParam)
    /\ runs[1].alpha = Some(FallbackDefault.alpha)
    /\ runs[1].maxIter = Some(7)

----------------------------------------------------------------------------
(* The supervisor's first step *)

\* the task of run i returned without a commit: it found the run cancelled
AbortedAtStart(i) == tasks[i].pc = "done" /\ tasks[i].committed = {}

\* C22: a supervisor task that starts on a run already cancelled returns
\* without spawning a child and without a write: the row (status, end time,
\* log) stays as the pre-emption wrote it, and no later step changes it, so
\* the run never becomes running
C22_CancelledBeforeStart ==
    [][\A i \in 1..Len(tasks) :
          /\ (tasks[i].pc = "start" /\ runs[i].status = "cancelled") =>
                /\ runs'[i] = runs[i]
                /\ tasks'[i].proc = "none"
                /\ tasks'[i].committed = {}
                /\ tasks'[i].pc \in {"start", "done"}
          /\ AbortedAtStart(i) =>
                /\ runs[i].status = "cancelled"
                /\ runs'[i] = runs[i]
                /\ tasks'[i] = tasks[i]]_vars

\* C22 witness: a run pre-empted while queued whose task has started and
\* returned: cancelled, with the end time and the notice of the pre-emption
C22_Witness ==
    \E i \in 1..Len(tasks) :
        /\ AbortedAtStart(i)
        /\ tasks[i].proc = "none"
        /\ runs[i].status = "cancelled"
        /\ ~IsNone(runs[i].end_time)
        /\ runs[i].logs = Some(<<Tok("preempt", 0)>>)

\* C23: when the task finds no training script, that step spawns no child,
\* closes the run as failed with an end time and one more log line that
\* tells the error, and the task returns; it never takes another step (no
\* retry), and neither versions nor metrics are written
C23_ScriptMissing ==
    [][\A i \in 1..Len(tasks) :
          /\ (SupStart(i, "script_missing") /\ runs[i].status # "cancelled") =>
                /\ tasks'[i].pc = "done"
                /\ tasks'[i].proc = "none"
                /\ runs'[i].status = "failed"
                /\ ~IsNone(runs'[i].end_time)
                /\ runs'[i].logs = Some(<<Tok("started", 0), Tok("fatal", 0)>>)
                /\ versions' = versions
                /\ metrics' = metrics
          /\ (tasks[i].pc = "done" /\ tasks[i].proc = "none") =>
                tasks'[i] = tasks[i]]_vars

\* C23 witness: a run closed as failed by the task that found no script
C23_Witness ==
    \E i \in 1..Len(tasks) :
        /\ tasks[i].pc = "done"
        /\ tasks[i].proc = "none"
        /\ <<"queued", "running">> \in tasks[i].committed
        /\ runs[i].status = "failed"
        /\ ~IsNone(runs[i].end_time)
        /\ runs[i].logs = Some(<<Tok("started", 0), Tok("fatal", 0)>>)

----------------------------------------------------------------------------
(* Termination escalation *)

Terminate5 == [sig |-> "terminate", timeout |-> 5, alive |-> TRUE]
Kill2 == [sig |-> "kill", timeout |-> 2, alive |-> TRUE]

\* the signals sent so far are terminate, or terminate then kill, each to a
\* child that had not exited, and the task waits 5 s after the first and 2 s
\* after the second
EscalationOrdered(i) ==
    LET signals == tasks[i].signals
    IN  /\ Len(signals) <= 2
        /\ \A n \in 1..Len(signals) : signals[n].alive
        /\ Len(signals) >= 1 => signals[1].sig = "terminate"
        /\ Len(signals) = 2 => signals[2].sig = "kill"
        /\ tasks[i].pc \in {"term_loop", "term_post"} => signals = <<Terminate5>>
        /\ tasks[i].pc \in {"kill_loop", "kill_post"} => signals = <<Terminate5, Kill2>>
        /\ HasTok(tasks[i].obj.logs, Tok("stillrunning", 0)) => signals = <<Terminate5, Kill2>>

\* the step that ends each wait: the kill follows the first wait exactly
\* when the child has not exited, and the warning follows the second wait
\* exactly when it still has not
EscalationStep(i) ==
    /\ (tasks[i].pc \in {"term_loop", "term_post"} /\ tasks'[i].pc # tasks[i].pc) =>
          IF ReturncodeIsNone(tasks[i])
          THEN /\ tasks'[i].pc \in {"kill_loop", "kill_post"}
               /\ tasks'[i].signals = <<Terminate5, Kill2>>
          ELSE /\ tasks'[i].pc = "done"
               /\ ~HasTok(runs'[i].logs, Tok("forcekill", 0))
    /\ (tasks[i].pc \in {"kill_loop", "kill_post"} /\ tasks'[i].pc # tasks[i].pc) =>
          /\ tasks'[i].pc = "done"
          /\ HasTok(runs'[i].logs, Tok("forcekill", 0))
          /\ HasTok(runs'[i].logs, Tok("stillrunning", 0)) <=> ReturncodeIsNone(tasks[i])

\* C24: a supervisor that observes the cancellation sends terminate first
\* and waits up to 5 s, sends kill only when the child has not exited within
\* that wait and then waits up to 2 s, and logs the still-running warning
\* only when the child has not exited after the kill wait; kill is never
\* sent before terminate nor to a child that has exited
C24_EscalationOrder ==
    [][\A i \in 1..Len(tasks') :
          /\ EscalationOrdered(i)'
          /\ i <= Len(tasks) => EscalationStep(i)]_vars

\* C24 witness: a cancelled run whose child outlived terminate and kill: the
\* supervisor has returned and the log carries the kill notice and the
\* warning
C24_Witness ==
    \E i \in 1..Len(tasks) :
        /\ tasks[i].pc = "done"
        /\ tasks[i].proc = "alive"
        /\ runs[i].status = "cancelled"
        /\ HasTok(runs[i].logs, Tok("forcekill", 0))
        /\ HasTok(runs[i].logs, Tok("stillrunning", 0))

----------------------------------------------------------------------------
(* Detection of a cancellation while the task awaits the child's output *)

\* readline() returns to the task of run i: a line, blank or not, or b""
LineOrEOF(i) ==
    \/ \E line \in OutputLines, vf, mf \in BOOLEAN : SupReadLine(i, line, vf, mf)
    \/ \E vf, mf \in BOOLEAN : SupReadEOF(i, vf, mf)

\* C25: when the run is cancelled while its task awaits readline(), the
\* step in which the next line (blank or not) or the end of the stream
\* arrives begins the termination: terminate is sent to a child that has not
\* exited and the task waits for it, or, the child having exited, the task
\* closes the run as cancelled; it does not go back to reading, and the run
\* is not classified by the exit code (no completion line, no version)
C25_DetectedAtNextLine ==
    [][\A i \in RunIds :
          (tasks[i].pc = "read" /\ runs[i].status = "cancelled" /\ LineOrEOF(i)) =>
             /\ runs'[i].status = "cancelled"
             /\ tasks'[i].emitted <= tasks[i].emitted + 1
             /\ ~HasToken(runs'[i].logs, "completed")
             /\ ~HasToken(tasks'[i].obj.logs, "completed")
             /\ versions' = versions
             /\ metrics' = metrics
             /\ IF ReturncodeIsNone(tasks[i])
                THEN /\ tasks'[i].pc \in {"term_loop", "term_post"}
                     /\ tasks'[i].signals = <<Terminate5>>
                ELSE /\ tasks'[i].pc = "done"
                     /\ HasTok(runs'[i].logs, Tok("terminated", 0))]_vars

\* C25 witness: the run was cancelled while its task awaited the first
\* line; the line came, blank, and the task has sent terminate
C25_Witness ==
    \E i \in RunIds :
        /\ tasks[i].pc = "term_loop"
        /\ tasks[i].emitted = 1
        /\ tasks[i].output_lines = 0
        /\ tasks[i].signals = <<Terminate5>>
        /\ runs[i].status = "cancelled"

----------------------------------------------------------------------------
(* Cleanup *)

\* C26: a supervisor that has spawned a child and has returned, by whatever
\* path, leaves the child's output stream closed and the child not running
C26_CleanedUp ==
    \A i \in RunIds :
        (tasks[i].pc = "done" /\ tasks[i].proc # "none") =>
            /\ tasks[i].stdout \in {"closed", "eof"}
            /\ tasks[i].proc = "exited"

----------------------------------------------------------------------------
(* Failures of the publication *)

\* the task of run i, which it has not found cancelled after the read loop,
\* collects return code 0 and goes through the publication, the commits
\* failing as told
Publishes(i, versionCommitFails, metricsCommitFails) ==
    /\ tasks'[i].pc = "done"
    /\ tasks[i].rc = 0
    /\ \/ /\ tasks[i].pc = "read"
          /\ runs[i].status # "cancelled"
          /\ SupReadEOF(i, versionCommitFails, metricsCommitFails)
       \/ /\ tasks[i].pc = "wait"
          /\ SupProcessExited(i, versionCommitFails, metricsCommitFails)

\* the Metric rows of the version with id vid
MetricsOf(mets, vid) == {m \in mets : m.model_version_id = vid}

\* C27: when the commit of the metric batch fails after the version was
\* committed, the version row is there, no Metric row of the batch is, and
\* the run's persisted status is success; no later step takes the version
\* away, adds a metric or changes the status
C27_MetricBatchFails ==
    [][\A i \in RunIds :
          /\ (Publishes(i, FALSE, TRUE) /\ DOMAIN tasks[i].extracted_metrics # {}) =>
                /\ versions' = Append(versions, NewVersion(tasks[i].version_tag))
                /\ metrics' = metrics
                /\ runs'[i].status = "success"
          /\ (tasks[i].pc = "done" /\ runs[i].status = "success") =>
                /\ runs'[i].status = "success"
                /\ \A vid \in 1..Len(versions) :
                      /\ versions'[vid] = versions[vid]
                      /\ MetricsOf(metrics', vid) = MetricsOf(metrics, vid)]_vars

\* C27 witness: metrics were extracted, the version is saved, no Metric row
\* is, and the run is a success
C27_Witness ==
    \E i \in RunIds :
        /\ tasks[i].pc = "done"
        /\ DOMAIN tasks[i].extracted_metrics = {10, 20}
        /\ runs[i].status = "success"
        /\ Len(versions) = 1
        /\ versions[1].version_tag = tasks[i].version_tag
        /\ metrics = {}

\* C28: when the version row cannot be created or committed, the run whose
\* child exited with code 0 is still closed as success, with its end time
\* set: it is neither failed nor left running
C28_PublisherFailureKeepsSuccess ==
    [][\A i \in RunIds :
          \A metricsCommitFails \in BOOLEAN :
              Publishes(i, TRUE, metricsCommitFails) =>
                 /\ runs'[i].status = "success"
                 /\ ~IsNone(runs'[i].end_time)]_vars

\* C29: when the publication fails, at the version row or at the metric
\* batch, the run's persisted log holds the warning of that failure once the
\* supervisor has returned
C29_PublicationFailureLogged ==
    [][\A i \in RunIds :
          /\ (Publishes(i, FALSE, TRUE) /\ DOMAIN tasks[i].extracted_metrics # {}) =>
                HasTok(runs'[i].logs, Tok("warn_metrics", 0))
          /\ \A metricsCommitFails \in BOOLEAN :
                Publishes(i, TRUE, metricsCommitFails) =>
                   HasTok(runs'[i].logs, Tok("warn_version", 0))]_vars

----------------------------------------------------------------------------
(* The active flag *)

\* C30: a step that is not the set-active operation leaves the active flag
\* of every existing version as it was and inserts new versions with the
\* flag false; no step removes a version
C30_PublisherNeverActivates ==
    [][/\ Len(versions') >= Len(versions)
       /\ \/ \E vid \in VersionIds : set_active_model_version(vid)
          \/ \A vid \in 1..Len(versions') :
                versions'[vid].isActive =
                   IF vid <= Len(versions) THEN versions[vid].isActive ELSE FALSE]_vars

\* C30 witness: the second run has been published while the first version
\* is the active one: the new version is not active
C30_Witness ==
    /\ Len(runs) = 2
    /\ tasks[2].pc = "done"
    /\ runs[2].status = "success"
    /\ Len(versions) = 2
    /\ versions[1].isActive
    /\ ~versions[2].isActive

\* the versions whose active flag is set
ActiveVersions(vers) == {v \in 1..Len(vers) : vers[v].isActive}

\* C31: at most one version is active after every step; a set-active that
\* names a version of the store is answered 200 and leaves that version
\* active and every other inactive; one that names an unknown id is
\* answered 404 NOT_FOUND and changes no flag
C31_OneActiveVersion ==
    [][/\ Cardinality(ActiveVersions(versions')) <= 1
       /\ \A vid \in VersionIds :
             set_active_model_version(vid) =>
                IF vid \in 1..Len(versions)
                THEN /\ resp'.code = 200
                     /\ ActiveVersions(versions') = {vid}
                ELSE /\ resp' = HttpError(404, "NOT_FOUND")
                     /\ versions' = versions]_vars

\* C31 witness: two versions in the store, the second made active by the
\* last request and the first not active
C31_Witness ==
    /\ Len(versions) = 2
    /\ resp.code = 200
    /\ resp.id = 2
    /\ resp.isActive
    /\ ActiveVersions(versions) = {2}

----------------------------------------------------------------------------
(* Metric extraction from the child's output *)

\* the line is a structured metric line whose six numbers all parse
ValidStructured(line) ==
    /\ line.metric # <<>>
    /\ \A f \in MetricTypes : line.metric[1].fields[f].ok

\* the line is an NDCG@10 line only, and its number parses
ValidLegacy(line) ==
    /\ line.metric = <<>>
    /\ line.ndcg # <<>>
    /\ line.ndcg[1].ok

\* the line matches a format and one of its numbers does not parse
MalformedLine(line) ==
    /\ line.metric # <<>> \/ line.ndcg # <<>>
    /\ line.metric # <<>> => \E f \in MetricTypes : ~line.metric[1].fields[f].ok
    /\ line.ndcg # <<>> => ~line.ndcg[1].ok

\* C32: when the supervisor processes a structured metric line whose numbers
\* all parse, the entry of the line's cutoff becomes exactly the six values of
\* the line, whatever was there before, and the entries of the other cutoffs
\* are unchanged.
C32_StructuredReplaces ==
    [][\A i \in 1..Len(tasks), line \in ParseLines, vf, mf \in BOOLEAN :
          (ValidStructured(line) /\ SupReadParseLine(i, line, vf, mf)) =>
             LET old == tasks[i].extracted_metrics
                 new == tasks'[i].extracted_metrics
                 m == line.metric[1]
             IN  /\ DOMAIN new = DOMAIN old \cup {m.k}
                 /\ DOMAIN new[m.k] = MetricTypes
                 /\ \A f \in MetricTypes : new[m.k][f] = m.fields[f].val
                 /\ \A c \in DOMAIN old \ {m.k} : new[c] = old[c]]_vars

\* a second structured line for cutoff 10 has replaced what the first one and
\* an NDCG@10 line had left there, next to an entry for cutoff 20
C32_Witness ==
    \E i \in 1..Len(tasks) :
       /\ tasks[i].emitted = 3
       /\ DOMAIN tasks[i].extracted_metrics = {10, 20}
       /\ \A f \in MetricTypes : tasks[i].extracted_metrics[10][f] = 6

\* C33: when the supervisor processes an NDCG@10 line whose number parses,
\* the entry of cutoff 10 gets that ndcg if it has none, and the map is
\* unchanged if cutoff 10 already has an ndcg; no other field and no other
\* cutoff changes.
C33_LegacyFirstWins ==
    [][\A i \in 1..Len(tasks), line \in ParseLines, vf, mf \in BOOLEAN :
          (ValidLegacy(line) /\ SupReadParseLine(i, line, vf, mf)) =>
             LET old == tasks[i].extracted_metrics
                 new == tasks'[i].extracted_metrics
                 entry == IF 10 \in DOMAIN old THEN old[10] ELSE <<>>
             IN  /\ DOMAIN new = DOMAIN old \cup {10}
                 /\ \A c \in DOMAIN old \ {10} : new[c] = old[c]
                 /\ DOMAIN new[10] = DOMAIN entry \cup {"ndcg"}
                 /\ \A f \in DOMAIN entry : new[10][f] = entry[f]
                 /\ "ndcg" \notin DOMAIN entry => new[10]["ndcg"] = line.ndcg[1].val]_vars

\* the first NDCG@10 line gave 7, a later one gave 9, and the entry still
\* holds 7 and nothing else
C33_Witness ==
    \E i \in 1..Len(tasks) :
       /\ tasks[i].ndcg_value = <<9>>
       /\ DOMAIN tasks[i].extracted_metrics = {10}
       /\ DOMAIN tasks[i].extracted_metrics[10] = {"ndcg"}
       /\ tasks[i].extracted_metrics[10]["ndcg"] = 7

\* the log holds the text of this output line
HasLine(logs, line) ==
    \E n \in 1..Len(LogsOrEmpty(logs)) :
       /\ LogsOrEmpty(logs)[n].k = "line"
       /\ LogsOrEmpty(logs)[n].v = line

\* C34: when the supervisor processes a line that matches a format and has a
\* number that does not parse, the metric map is unchanged, the supervisor
\* goes on with the read loop, and the persisted log of the run holds the
\* line.
C34_MalformedIgnored ==
    [][\A i \in 1..Len(tasks), line \in ParseLines, vf, mf \in BOOLEAN :
          (MalformedLine(line) /\ SupReadParseLine(i, line, vf, mf)) =>
             /\ tasks'[i].extracted_metrics = tasks[i].extracted_metrics
             /\ tasks'[i].pc \in {"read", "loop"}
             /\ HasLine(runs'[i].logs, line)]_vars

\* the parts of C34 that the line-by-line parser keeps: nothing extracted,
\* the loop goes on
C34_MalformedExtractsNothing ==
    [][\A i \in 1..Len(tasks), line \in ParseLines, vf, mf \in BOOLEAN :
          (MalformedLine(line) /\ SupReadParseLine(i, line, vf, mf)) =>
             /\ tasks'[i].extracted_metrics = tasks[i].extracted_metrics
             /\ tasks'[i].pc \in {"read", "loop"}]_vars

----------------------------------------------------------------------------
(* The persisted log *)

\* the earlier log is the beginning of the later one
IsLogPrefix(old, new) ==
    /\ Len(LogsOrEmpty(old)) <= Len(LogsOrEmpty(new))
    /\ \A n \in 1..Len(LogsOrEmpty(old)) :
          /\ LogsOrEmpty(new)[n].k = LogsOrEmpty(old)[n].k
          /\ LogsOrEmpty(new)[n].v = LogsOrEmpty(old)[n].v

\* C35: in every step, of a trigger or of a supervisor, the persisted log of
\* every run keeps what it held as its beginning; a pre-emption notice that a
\* trigger committed while the supervisor was suspended stays in the log.
C35_LogAppendOnly ==
    [][\A i \in 1..Len(runs) : IsLogPrefix(runs[i].logs, runs'[i].logs)]_vars

\* the child's lines held by a log, in the order the log holds them
LinesOf(text) ==
    LET held == SelectSeq(text, LAMBDA t : t.k = "line")
    IN  [n \in 1..Len(held) |-> held[n].v]

\* the child's lines held by the log column of a run
LogLines(logs) == LinesOf(LogsOrEmpty(logs))

\* C36: every line the supervisor reads from the child is added to the
\* persisted log of the run, after the child's lines the log already holds
\* and exactly once.
C36_LinesInOrder ==
    [][\A i \in 1..Len(tasks), line \in ParseLines, vf, mf \in BOOLEAN :
          SupReadParseLine(i, line, vf, mf) =>
             LogLines(runs'[i].logs) = Append(LogLines(runs[i].logs), line)]_vars

\* C37: a client that fetches the log of a run that is not cancelled, while
\* its supervisor is between two reads and has processed at least one line,
\* is answered a log that holds output of the child.
C37_LogsVisibleWhileTraining ==
    [][\A key \in LookupKeys :
          LET i == FindRun(runs, key)
          IN  (/\ get_run_logs(key)
               /\ i # 0
               /\ runs[i].status # "cancelled"
               /\ tasks[i].pc \in {"read", "loop"}
               /\ tasks[i].output_lines > 0) =>
                 LinesOf(resp'.logs) # <<>>]_vars

----------------------------------------------------------------------------
(* End time and duration *)

\* C38: in every persisted state, a run has an end time and a duration
\* exactly when its status is success, failed or cancelled.
C38_EndTimeIffTerminal ==
    \A i \in 1..Len(runs) :
       /\ (runs[i].end_time # <<>>) <=> (runs[i].status \in TerminalStatus)
       /\ (runs[i].duration # <<>>) <=> (runs[i].status \in TerminalStatus)

\* a pre-empted run and a run that ended by itself both carry an end time and
\* a duration, after a moment in which the second was running without them
C38_Witness ==
    /\ Len(runs) = 2
    /\ runs[1].status = "cancelled"
    /\ runs[1].end_time # <<>>
    /\ runs[2].status \in {"success", "failed"}
    /\ runs[2].end_time # <<>>
    /\ runs[2].duration # <<>>
    /\ <<"queued", "running">> \in tasks[2].committed

----------------------------------------------------------------------------
(* Trigger and the store *)

\* C39: a trigger call that ends without inserting a run leaves the status of
\* every run as it was: it has cancelled no queued or running run.
C39_TriggerAllOrNothing ==
    [][\A body \in Bodies :
          (trigger_manual_run(body) /\ Len(runs') = Len(runs)) =>
             \A i \in 1..Len(runs) : runs'[i].status = runs[i].status]_vars

----------------------------------------------------------------------------
(* Versions and the runs that made them *)

\* the runs whose persisted status is success
SuccessRuns(store) == {i \in 1..Len(store) : store[i].status = "success"}

\* the persisted log of the run says that it saved a version
SavedVersion(row) == HasToken(row.logs, "version_saved")

\* C40: a version row is created only by the step in which a supervisor
\* finishes a run whose child returned 0, one row in that step; there are
\* never more versions than runs persisted as success, and no run persisted
\* as failed or cancelled has saved a version.
C40_VersionsOnlyFromSuccess ==
    [][/\ Len(versions') <= Cardinality(SuccessRuns(runs'))
       /\ \A i \in 1..Len(runs') :
             runs'[i].status \in {"failed", "cancelled"} => ~SavedVersion(runs'[i])
       /\ Len(versions') # Len(versions) =>
             /\ Len(versions') = Len(versions) + 1
             /\ \E i \in 1..Len(tasks) :
                   /\ tasks[i].pc # "done"
                   /\ tasks'[i].pc = "done"
                   /\ tasks[i].rc = 0
                   /\ tasks[i].proc = "exited"
                   /\ runs'[i].status = "success"
                   /\ SavedVersion(runs'[i])
                   /\ ~SavedVersion(runs[i])]_vars

\* two runs have each published one version; the first was pre-empted while
\* its child was finishing
C40_Witness ==
    /\ Len(versions) = 2
    /\ Cardinality(SuccessRuns(runs)) = 2
    /\ <<"cancelled", "success">> \in tasks[1].committed
    /\ \A i \in 1..2 : SavedVersion(runs[i])

====
